---------------------------- MODULE Spec2Model ----------------------------
(***************************************************************************)
(* A model of the realtime chat server (Socket.IO handlers of server.js,   *)
(* ChatService / FloatingChatService of services/chat.js, the Message      *)
(* schema of models/message.js).                                           *)
(*                                                                         *)
(* Every socket handler is an async function: it runs synchronously up to  *)
(* its first await and is resumed once per awaited storage operation.  A   *)
(* handler invocation is an entry of reqs; its field pc names the storage  *)
(* operation it is waiting for.  One action models the synchronous part of *)
(* a handler (together with everything it does before its first await),    *)
(* and one action models each awaited storage operation together with the  *)
(* code that runs when the handler resumes from it.  An updateMany, which   *)
(* the storage applies document by document, takes one step per document   *)
(* it writes and one to return.                                            *)
(*                                                                         *)
(* Every service method begins with await connectToDatabase(domain).  The  *)
(* handlers that verify a token (the socket handshake and the HTTP routes) *)
(* are modelled with that call and its retries.  The handlers of a         *)
(* connected socket are modelled in states where the cache entry of the    *)
(* domain is marked connected, as it is after a handshake whose            *)
(* connection was created: the call then returns the cached connection and *)
(* changes nothing; a call or a query that rejects is the failure action   *)
(* of the handler.                                                         *)
(***************************************************************************)
EXTENDS Integers, Sequences, FiniteSets, TLC

VARIABLES
    store,          \* the Message collection: message id -> document
    floating,       \* the messagefloating collection: message id -> document
    nextId,         \* the next _id the storage assigns
    connected,      \* the sockets whose connection is open
    rooms,          \* socket.rooms of every socket (without the socket's own id)
    connectedClients, \* Map user id -> socket: its entries in insertion order
    onlineUsersBySchool, \* Map schoolCode -> Set of user ids
    rateLimiters,   \* rateLimiters[type].requests: user id -> {count, resetTime}
    now,            \* Date.now(), in milliseconds
    connectionCache, \* lib/mongodb.js: domain -> {connection, isConnected}
    connections,    \* the mongoose connections created, by number
    calls,          \* the connectToDatabase invocations, in the order issued
    inbox,          \* the events each socket has been sent, in order
    reqs            \* the handler invocations, in the order they were issued

\* The state of lib/mongodb.js, and the state of the chat server.
dbVars == <<connectionCache, connections, calls>>

chatVars == <<store, floating, nextId, connected, rooms, connectedClients,
              onlineUsersBySchool, rateLimiters, inbox, reqs>>

vars == <<chatVars, now, dbVars>>

---------------------------------------------------------------------------
(* The universe of the model.                                              *)

Users == {"u1", "u2", "u3", "u4"}
Sockets == {"k1", "k2", "k3", "k4", "k5"}
Schools == {"S1", "S2"}
Emojis == {"e1", "e2"}
FloatingRoom == "floating-chat"
ChatroomIds == {"R1", "R2"}
NoSocket == "none"

\* The verified identity carried by a socket's token (socket.user).  k5 is
\* a second connection of u1.
SockUser(k) ==
    CASE k \in {"k1", "k5"} -> "u1" [] k = "k2" -> "u2" [] k = "k4" -> "u4"
      [] OTHER -> "u3"
schoolCode(u) == IF u = "u3" THEN "S2" ELSE "S1"

\* payload.domain of the tokens: both schools are served from one domain.
userDomain(u) == "d1"
SchoolRoom(u) == IF schoolCode(u) = "S1" THEN "school:S1" ELSE "school:S2"

\* user.role, user.name and user.username of the token.  u3, of the other
\* school, has the name of u2.
role(u) == IF u = "u2" THEN "admin" ELSE "student"
name(u) ==
    CASE u = "u1" -> <<"A", "a">> [] u = "u4" -> <<"A", "b">> [] OTHER -> <<"B", "b">>
username(u) ==
    CASE u = "u1" -> <<"a", "1">> [] u = "u2" -> <<"b", "2">>
      [] u = "u3" -> <<"b", "3">> [] OTHER -> <<"a", "4">>

\* Message contents: strings over a blank, a tab, a line feed, a no-break
\* space, a zero width space (which trim keeps) and letters.
Contents ==
    {<<" ">>, <<"\t", "U+00A0", "\n">>, <<"\n", "a", " ">>, <<" ", "U+0627", "U+200B">>}

\* Bounds of the model: the number of handler invocations in one behaviour.
MaxSendReqs == 2
MaxReactReqs == 2
MaxPinReqs == 2
MaxPinTime == 1
MaxEditTime == 1
MaxReadReqs == 2
MaxNotifyReqs == 2
MaxMentionReqs == 2
MaxEditReqs == 2
MaxMutateReqs == 2
MaxListReqs == 2
MaxPageMsgs == 3
MaxPageTime == 1
MaxPageLimit == 2
MaxSweepReqs == 3
MaxFloatReadReqs == 2
MaxFloatReqs == 2
MaxFailureReqs == 2
MaxPresenceReqs == 1
MaxRoomReqs == 3
MaxLimiterReqs == 3
MaxWindows == 2
MaxTenantCalls == 2
MaxReconnectCalls == 3
MaxPresenceThrows == 1
MaxSessionThrows == 1
MaxListThrows == 4

\* Program constants.
MaxPinned == 3
PreviewLen == 100
MessagesPerWindow == 30
ReactionsPerWindow == 60
WindowMs == 60000

---------------------------------------------------------------------------
(* String.prototype.trim                                                   *)

\* A string is a sequence of characters.  An ASCII character is written as
\* itself; a character outside ASCII is written by its code point, as in
\* "U+0627" for the Arabic letter alef.

\* The characters trim strips: WhiteSpace (TAB, VT, FF, SP, NBSP, ZWNBSP and
\* the space separators) and LineTerminator (LF, CR, LS, PS) of ECMAScript.
WhiteSpace ==
    {" ", "\t", "\n", "\r", "\f", "",
     "U+00A0", "U+1680", "U+2000", "U+2001", "U+2002", "U+2003", "U+2004",
     "U+2005", "U+2006", "U+2007", "U+2008", "U+2009", "U+200A", "U+2028",
     "U+2029", "U+202F", "U+205F", "U+3000", "U+FEFF"}

IsWhitespace(c) == c \in WhiteSpace

RECURSIVE TrimStart(_)
TrimStart(s) ==
    IF s # <<>> /\ IsWhitespace(Head(s)) THEN TrimStart(Tail(s)) ELSE s

RECURSIVE TrimEnd(_)
TrimEnd(s) ==
    IF s # <<>> /\ IsWhitespace(s[Len(s)])
    THEN TrimEnd(SubSeq(s, 1, Len(s) - 1))
    ELSE s

trim(s) == TrimEnd(TrimStart(s))

\* String.prototype.toLowerCase over the letters of the model.
LowerChar(c) == CASE c = "A" -> "a" [] c = "B" -> "b" [] OTHER -> c

toLowerCase(s) == [i \in 1..Len(s) |-> LowerChar(s[i])]

\* String.prototype.substring(0, n).
substring(s, n) == IF Len(s) > n THEN SubSeq(s, 1, n) ELSE s

---------------------------------------------------------------------------
(* Sequences used as arrays.                                               *)

Elems(s) == {s[i] : i \in 1..Len(s)}

\* Array.prototype.findIndex followed by splice(index, 1): the first
\* occurrence of x is removed.
RECURSIVE RemoveFirst(_, _)
RemoveFirst(s, x) ==
    IF s = <<>> THEN <<>>
    ELSE IF Head(s) = x THEN Tail(s)
    ELSE <<Head(s)>> \o RemoveFirst(Tail(s), x)

\* MongoDB's $addToSet on an array field.
addToSet(s, x) == IF x \in Elems(s) THEN s ELSE Append(s, x)

---------------------------------------------------------------------------
(* Handler invocations.  The field prior records which invocations had     *)
(* already returned when this one was issued.                              *)

NoDelta == [e \in {} |-> <<>>]

\* socket.handshake.auth.token of a connection that presents no token.
NoToken == [userId |-> "", key |-> ""]

\* No unreadCounts object has been returned.
NoCounts == [room \in {} |-> 0]

NewReq(kind, k, room, pc) ==
    [kind |-> kind, sock |-> k, room |-> room, mid |-> 0, emoji |-> "",
     content |-> <<>>, file |-> FALSE, pc |-> pc, ack |-> "none",
     delta |-> NoDelta, saved |-> 0, mentions |-> <<>>,
     notified |-> {}, failedFor |-> {}, token |-> NoToken, resetIn |-> -1,
     count |-> -1, counts |-> NoCounts, timestamp |-> now, before |-> -1,
     limit |-> 0, messages |-> <<>>, hasMore |-> FALSE, nextCursor |-> -1,
     user |-> "", found |-> FALSE, chatrooms |-> {}, cursor |-> 0,
     sweeping |-> FALSE, present |-> {}, modified |-> {},
     target |-> NoSocket, at |-> -1,
     prior |-> {i \in 1..Len(reqs) : reqs[i].pc = "done"}]

Issued(kind) == Cardinality({i \in 1..Len(reqs) : reqs[i].kind = kind})

Waiting(i, kind, pc) ==
    /\ i \in 1..Len(reqs)
    /\ reqs[i].kind = kind
    /\ reqs[i].pc = pc

\* The handler's last step: callback(ack).
Finish(i, ack) == [reqs EXCEPT ![i].pc = "done", ![i].ack = ack]

---------------------------------------------------------------------------
(* Socket.IO rooms.                                                        *)

\* io.to(room): every open socket that has joined room.
InRoom(room) == {k \in connected : room \in rooms[k]}

\* socket.to(room).emit: the room without the emitting socket.
socketTo(room, from) == InRoom(room) \ {from}

\* io.to(room).emit from a handler of socket from: the whole room.
ioTo(room, from) == InRoom(room)

Emit(box, targets, ev) ==
    [k \in Sockets |-> IF k \in targets THEN Append(box[k], ev) ELSE box[k]]

---------------------------------------------------------------------------
(* lib/mongodb.js: the connection cache of the tenants (domains).          *)

Domains == {"d1", "d2", "d3"}

\* database.json: d1 has a connection string, d3 has an entry with an empty
\* one, d2 has no entry.
databaseConfig ==
    [d \in {"d1", "d3"} |->
        [connectionString |-> IF d = "d1" THEN "mongodb://d1" ELSE ""]]

MAX_RETRIES == 3
RETRY_DELAY == 5000

hasConfigEntry(domain) == domain \in DOMAIN databaseConfig

\* getConnectionString returns (does not throw): config and
\* config.connectionString are both truthy.
hasConnectionString(domain) ==
    /\ domain \in DOMAIN databaseConfig
    /\ databaseConfig[domain].connectionString # ""

\* connectionCache[domain] of a domain without an entry.
NoEntry == [connection |-> 0, isConnected |-> FALSE]

\* The module state after loading: nothing cached, no connection created.
DbIdle ==
    /\ connectionCache = [d \in Domains |-> NoEntry]
    /\ connections = <<>>
    /\ calls = <<>>

\* The module state once a connection of d1 has been created and has
\* opened: every handler of a connected socket has called connectToDatabase.
DbReady ==
    /\ connectionCache = [d \in Domains |->
           IF d = "d1" THEN [connection |-> 1, isConnected |-> TRUE] ELSE NoEntry]
    /\ connections = <<[domain |-> "d1", readyState |-> "connected"]>>
    /\ calls = <<>>

\* connectionCache[domain]?.isConnected
cachedConnected(domain) == connectionCache[domain].isConnected

\* A connectToDatabase invocation.  owner is the handler invocation (its
\* position in reqs) that awaits the call, 0 for a call made by no handler.
NewCall(domain) ==
    [domain |-> domain, pc |-> "start", connectionAttempts |-> 0,
     result |-> "none", handle |-> 0, created |-> 0, thrown |-> 0,
     wakeAt |-> 0, owner |-> 0]

mayRetryOnce(connectionAttempts) == connectionAttempts < 1

\* connectionAttempts < MAX_RETRIES, the test of the catch block.
mayRetry(connectionAttempts) == connectionAttempts < MAX_RETRIES

\* One run of connectWithRetry for call: mongoose.createConnection either
\* returns a connection, which is cached as connected and returned, or
\* throws, and the catch block retries after RETRY_DELAY or gives up.  The
\* result is the call afterwards.
connectWithRetry(call, throws) ==
    IF ~throws
    THEN [call EXCEPT !.pc = "done", !.result = "handle",
                      !.handle = Len(connections) + 1,
                      !.created = Len(connections) + 1,
                      !.connectionAttempts = 0]
    ELSE IF mayRetry(call.connectionAttempts)
    THEN [call EXCEPT !.pc = "retryWait", !.connectionAttempts = @ + 1,
                      !.thrown = @ + 1, !.wakeAt = now + RETRY_DELAY]
    ELSE [call EXCEPT !.pc = "done", !.result = "connectError",
                      !.thrown = @ + 1]

\* The connections and the cache after that run.
Created(call, throws) ==
    IF throws THEN connections
    ELSE Append(connections, [domain |-> call.domain, readyState |-> "connecting"])

Cached(call, throws) ==
    IF throws THEN connectionCache
    ELSE [connectionCache EXCEPT
            ![call.domain] = [connection |-> Len(connections) + 1,
                              isConnected |-> TRUE]]

\* connectToDatabase(domain) up to its first await, as the call afterwards:
\* a connected cache entry is returned; a domain without a connection
\* string makes it reject; otherwise connectWithRetry runs once.
startCall(domain, throws, owner) ==
    IF cachedConnected(domain)
    THEN [NewCall(domain) EXCEPT !.pc = "done", !.result = "handle",
                                 !.handle = connectionCache[domain].connection,
                                 !.owner = owner]
    ELSE IF ~hasConnectionString(domain)
    THEN [NewCall(domain) EXCEPT !.pc = "done", !.result = "configError",
                                 !.owner = owner]
    ELSE connectWithRetry([NewCall(domain) EXCEPT !.owner = owner], throws)

\* Only connectWithRetry calls mongoose.createConnection.
attempts(domain) == ~cachedConnected(domain) /\ hasConnectionString(domain)

\* The module state after that call, made when the calls so far are cs.
connectFrom(cs, domain, throws, owner) ==
    /\ calls' = Append(cs, startCall(domain, throws, owner))
    /\ connections' = IF attempts(domain) THEN Created(NewCall(domain), throws)
                      ELSE connections
    /\ connectionCache' = IF attempts(domain) THEN Cached(NewCall(domain), throws)
                          ELSE connectionCache

connectToDatabase(domain, throws, owner) == connectFrom(calls, domain, throws, owner)

\* connectToDatabase(domain) called by no handler.
ConnectToDatabase(domain, throws) ==
    /\ connectToDatabase(domain, throws, 0)
    /\ UNCHANGED <<chatVars, now>>

\* The number of times mongoose.createConnection has thrown, and the
\* outcomes of its next call while it has thrown fewer than n times.
RECURSIVE ThrownUpTo(_)
ThrownUpTo(c) == IF c = 0 THEN 0 ELSE ThrownUpTo(c - 1) + calls[c].thrown

Thrown == ThrownUpTo(Len(calls))

Throws(n) == {t \in BOOLEAN : t => Thrown < n}

\* The clock reaches the time at which a waiting call is woken.
RetryTimer ==
    /\ \E c \in 1..Len(calls) :
          /\ calls[c].pc = "retryWait"
          /\ calls[c].wakeAt > now
          /\ now' = calls[c].wakeAt
    /\ UNCHANGED <<chatVars, dbVars>>

markIgnored(cache, domain, flag) == cache

\* The event handlers of a connection: if (connectionCache[domain])
\* connectionCache[domain].isConnected = flag.
mark(cache, domain, flag) ==
    IF cache[domain] # NoEntry
    THEN [cache EXCEPT ![domain].isConnected = flag]
    ELSE cache

\* The connection n opens; no handler is registered for this event.
Opened(n) ==
    /\ n \in 1..Len(connections)
    /\ connections[n].readyState = "connecting"
    /\ connections' = [connections EXCEPT ![n].readyState = "connected"]
    /\ UNCHANGED <<chatVars, now, connectionCache, calls>>

\* The connection n emits 'error': its initial connection failed, or an
\* error is reported on the open connection.
ErrorEvent(n) ==
    /\ n \in 1..Len(connections)
    /\ connections[n].readyState \in {"connecting", "connected"}
    /\ connections' = [connections EXCEPT ![n].readyState =
                          IF @ = "connecting" THEN "failed" ELSE @]
    /\ connectionCache' = mark(connectionCache, connections[n].domain, FALSE)
    /\ UNCHANGED <<chatVars, now, calls>>

\* The connection n emits 'disconnected'.
DisconnectedEvent(n) ==
    /\ n \in 1..Len(connections)
    /\ connections[n].readyState = "connected"
    /\ connections' = [connections EXCEPT ![n].readyState = "disconnected"]
    /\ connectionCache' = mark(connectionCache, connections[n].domain, FALSE)
    /\ UNCHANGED <<chatVars, now, calls>>

\* The connection n emits 'reconnected'.
ReconnectedEvent(n) ==
    /\ n \in 1..Len(connections)
    /\ connections[n].readyState = "disconnected"
    /\ connections' = [connections EXCEPT ![n].readyState = "connected"]
    /\ connectionCache' = mark(connectionCache, connections[n].domain, TRUE)
    /\ UNCHANGED <<chatVars, now, calls>>

---------------------------------------------------------------------------
(* RateLimiter.check, applied to rateLimiters[type] at the time now.       *)

Ceiling(type) ==
    IF type = "messages" THEN MessagesPerWindow ELSE ReactionsPerWindow

\* this.requests.get(userId) of a user without an entry.
NoLimit == [count |-> 0, resetTime |-> 0]

\* now > userLimit.resetTime
windowExpired(userLimit, t) == t > userLimit.resetTime

\* !userLimit || now > userLimit.resetTime: the check starts a new window.
startsWindow(type, u) ==
    \/ rateLimiters[type][u] = NoLimit
    \/ windowExpired(rateLimiters[type][u], now)

\* result.allowed
checkAllowed(type, u) ==
    \/ startsWindow(type, u)
    \/ rateLimiters[type][u].count < Ceiling(type)

\* result.resetIn
checkResetIn(type, u) ==
    IF startsWindow(type, u) THEN WindowMs
    ELSE rateLimiters[type][u].resetTime - now

\* this.requests after the check.
checkCount(type, u) ==
    IF startsWindow(type, u)
    THEN [rateLimiters EXCEPT ![type][u] = [count |-> 1, resetTime |-> now + WindowMs]]
    ELSE IF checkAllowed(type, u)
    THEN [rateLimiters EXCEPT ![type][u].count = @ + 1]
    ELSE rateLimiters

\* RateLimiter.cleanup of every limiter, run by the setInterval timer: the
\* entries whose window has expired are deleted.
cleanup(limiters, t) ==
    [type \in DOMAIN limiters |->
        [u \in DOMAIN limiters[type] |->
            IF limiters[type][u] # NoLimit /\ t > limiters[type][u].resetTime
            THEN NoLimit
            ELSE limiters[type][u]]]

Cleanup ==
    /\ rateLimiters' = cleanup(rateLimiters, now)
    /\ rateLimiters' # rateLimiters
    /\ UNCHANGED <<store, floating, nextId, connected, rooms, connectedClients,
                   onlineUsersBySchool, now, inbox, reqs, dbVars>>

\* A millisecond passes, up to the time max.
ClockTick(max) ==
    /\ now < max
    /\ now' = now + 1
    /\ UNCHANGED <<chatVars, dbVars>>

\* The entry of a user who has made c checks in the window started at 0.
Counted(c) == [count |-> c, resetTime |-> WindowMs]

---------------------------------------------------------------------------
(* The Message collection.                                                 *)

NoReactions == [e \in {} |-> <<>>]

\* A mutant of NewMessage: the message is created as already read.
NewMessageAlreadyRead(id, room, u, content, file) ==
    [id |-> id, chatroomId |-> room, schoolCode |-> schoolCode(u),
     sender |-> u, content |-> content, file |-> file, read |-> TRUE,
     readBy |-> <<>>, reactions |-> NoReactions, pinned |-> FALSE,
     pinnedAt |-> -1, pinnedBy |-> "", edited |-> FALSE, editedAt |-> -1,
     mentions |-> <<>>, timestamp |-> 0]

NewMessage(id, room, u, content, file) ==
    [id |-> id, chatroomId |-> room, schoolCode |-> schoolCode(u),
     sender |-> u, content |-> content, file |-> file, read |-> FALSE,
     readBy |-> <<>>, reactions |-> NoReactions, pinned |-> FALSE,
     pinnedAt |-> -1, pinnedBy |-> "", edited |-> FALSE, editedAt |-> -1,
     mentions |-> <<>>, timestamp |-> 0]

\* Model.save of a new document: the document is stored under a fresh _id.
Insert(coll, doc) == [id \in DOMAIN coll \cup {doc.id} |->
                         IF id = doc.id THEN doc ELSE coll[id]]

\* messageSchema.pre('validate') and the required paths of the schema.
messageValid(room, content, file) ==
    /\ room # ""
    /\ ~(trim(content) = <<>> /\ ~file)

\* floatingMessageSchema: content is a required String (an empty string
\* does not satisfy required).
floatingValid(content, file) == content # <<>>

---------------------------------------------------------------------------
(* The messagefloating collection.                                         *)

NewFloatingMessage(id, u, content, file) ==
    [id |-> id, schoolCode |-> schoolCode(u), sender |-> u,
     content |-> content, file |-> file, read |-> FALSE, readBy |-> <<>>,
     timestamp |-> 0]

\* The default page sizes of getChatroomMessages and of getMessages.
DefaultLimit == 50
FloatingLimit == 100

\* FloatingChatService.getMessages when find returned the ids in the order
\* sorted: the first limit documents, reversed into chronological order.
getMessages(coll, sorted, limit) ==
    LET page == SubSeq(sorted, 1, IF Len(sorted) > limit THEN limit ELSE Len(sorted))
    IN  [j \in 1..Len(page) |-> coll[page[Len(page) + 1 - j]]]

---------------------------------------------------------------------------
(* ChatService.getChatroomMessages: a page of a chatroom's messages.  A    *)
(* cursor is the ISO string of a timestamp; toISOString and new Date keep  *)
(* the millisecond, so a cursor is modelled by the timestamp, and the      *)
(* absent cursor (null) by -1.                                             *)

Reverse(s) == [j \in 1..Len(s) |-> s[Len(s) + 1 - j]]

\* The documents matched by {chatroomId, schoolCode} and, with a cursor,
\* timestamp: {$lt: new Date(before)}.
Matching(coll, room, sc, before) ==
    {id \in DOMAIN coll :
        /\ coll[id].chatroomId = room
        /\ coll[id].schoolCode = sc
        /\ before >= 0 => coll[id].timestamp < before}

\* sort({timestamp: -1}): the orders of ids by descending timestamp.  The
\* order of documents with equal timestamps is the storage's choice.
SortedByTimestampDesc(coll, ids) ==
    {s \in [1..Cardinality(ids) -> ids] :
        /\ \A a, b \in 1..Cardinality(ids) : a # b => s[a] # s[b]
        /\ \A a, b \in 1..Cardinality(ids) :
              a < b => coll[s[a]].timestamp >= coll[s[b]].timestamp}

\* The result of getChatroomMessages when find returned the documents in
\* the order sorted: limit + 1 of them are fetched, the extra one is
\* popped, and the page is reversed into chronological order.
getChatroomMessages(coll, sorted, limit) ==
    LET fetched == SubSeq(sorted, 1, IF Len(sorted) > limit + 1
                                     THEN limit + 1 ELSE Len(sorted))
        hasMore == Len(fetched) > limit
        page == IF hasMore THEN SubSeq(fetched, 1, Len(fetched) - 1) ELSE fetched
    IN  [messages |-> Reverse(page),
         hasMore |-> hasMore,
         nextCursor |-> IF hasMore /\ page # <<>>
                        THEN coll[page[Len(page)]].timestamp ELSE -1]

---------------------------------------------------------------------------
(* ChatService.getChatrooms and GET /api/chatrooms.                        *)
(*                                                                         *)
(* A membership field of a chatroom (recipients.teachers, students,        *)
(* classCode, groups) is absent, an array of strings, an array of objects  *)
(* with a value field, or a string of comma-separated values.  A string is *)
(* a sequence of characters in which an identifier is one character.       *)

Absent == [kind |-> "absent", items |-> <<>>, chars |-> <<>>]

ArrayOf(values, asObjects) ==
    [kind |-> "array",
     items |-> [j \in 1..Len(values) |-> [object |-> asObjects, value |-> values[j]]],
     chars |-> <<>>]

\* The values joined by a comma and a space.
RECURSIVE Join(_)
Join(values) ==
    IF values = <<>> THEN <<>>
    ELSE IF Len(values) = 1 THEN <<values[1]>>
    ELSE <<values[1], ",", " ">> \o Join(Tail(values))

StringOf(values) == [kind |-> "string", items |-> <<>>, chars |-> Join(values)]

\* String.prototype.split(',').
RECURSIVE split(_)
split(s) ==
    IF \A j \in 1..Len(s) : s[j] # "," THEN <<s>>
    ELSE LET p == CHOOSE j \in 1..Len(s) :
                     s[j] = "," /\ \A x \in 1..(j - 1) : s[x] # ","
         IN  <<SubSeq(s, 1, p - 1)>> \o split(SubSeq(s, p + 1, Len(s)))

\* split(',').map(s => s.trim()), as the set of the identifiers it holds.
splitAndTrim(s) == {trim(part) : part \in Elems(split(s))}

\* recipients.x || []: an absent field and the empty string give [].
orEmptyArray(field) ==
    IF field.kind = "absent" \/ (field.kind = "string" /\ field.chars = <<>>)
    THEN ArrayOf(<<>>, FALSE)
    ELSE field

\* The values of an array of strings or of objects with a value field.
valuesOf(field) == {field.items[j].value : j \in 1..Len(field.items)}

isTeacher(user) == user.userType = "teacher" \/ user.role = "teacher"
isStudent(user) == user.userType = "student" \/ user.role = "student"

\* The callback of allChatrooms.filter: "yes", "no", or "throws" when it
\* calls some() on a string.
hasAccess(chatroom, user) ==
    LET teachersList == orEmptyArray(chatroom.teachers)
        studentsList == orEmptyArray(chatroom.students)
        classCodes == orEmptyArray(chatroom.classCode)
        groups == orEmptyArray(chatroom.groups)
        own == {user.id, user.username}
        asTeacher ==
            valuesOf(teachersList) \cap own # {}
        asStudent ==
            \/ studentsList.kind = "array" /\ valuesOf(studentsList) \cap own # {}
            \/ /\ studentsList.kind = "string"
               /\ \E x \in own : <<x>> \in splitAndTrim(studentsList.chars)
            \/ /\ classCodes.kind = "array"
               /\ user.hasClassCode
               /\ valuesOf(classCodes) \cap Elems(user.classCode) # {}
            \/ /\ groups.kind = "array"
               /\ user.hasGroups
               /\ valuesOf(groups) \cap Elems(user.groups) # {}
            \/ /\ groups.kind = "string"
               /\ user.hasGroups
               /\ \E g \in Elems(user.groups) : <<g>> \in splitAndTrim(groups.chars)
    IN  IF ~chatroom.hasRecipients THEN "no"
        ELSE IF isTeacher(user) /\ teachersList.kind = "string" THEN "throws"
        ELSE IF isTeacher(user) /\ asTeacher THEN "yes"
        ELSE IF isStudent(user) /\ asStudent THEN "yes"
        ELSE "no"

\* getChatrooms: find({'data.schoolCode': schoolCode}), everything for a
\* school user, else the filter; a callback that throws makes it reject.
getChatrooms(coll, sc, user) ==
    LET allChatrooms == {c \in coll : c.schoolCode = sc}
    IN  IF user.userType = "school" \/ user.role = "school"
        THEN [ok |-> TRUE, chatrooms |-> {c.id : c \in allChatrooms}]
        ELSE IF \E c \in allChatrooms : hasAccess(c, user) = "throws"
        THEN [ok |-> FALSE, chatrooms |-> {}]
        ELSE [ok |-> TRUE,
              chatrooms |-> {c.id : c \in {x \in allChatrooms :
                                               hasAccess(x, user) = "yes"}}]

---------------------------------------------------------------------------
(* Read state and unread counts (ChatService).                             *)

\* A mutant of UnreadBy: the sender's own messages are not excluded.
UnreadByAnyone(doc, u) == u \notin Elems(doc.readBy)

\* The filter shared by markMessagesAsRead and the unread queries:
\* 'sender.id': {$ne: userId}, readBy: {$ne: userId}.
UnreadBy(doc, u) == doc.sender # u /\ u \notin Elems(doc.readBy)

\* A mutant of markMessagesAsRead: the update keyed on the read flag alone,
\* which records no reader.
markMessagesAsReadByFlag(coll, room, u, sc) ==
    [id \in DOMAIN coll |->
        IF /\ coll[id].chatroomId = room
           /\ coll[id].schoolCode = sc
           /\ coll[id].sender # u
           /\ coll[id].read = FALSE
        THEN [coll[id] EXCEPT !.read = TRUE]
        ELSE coll[id]]

\* MessageModel.updateMany(filter, {$addToSet: {readBy}, $set: {read}}):
\* the collection with the update applied to every document that matches.
markMessagesAsRead(coll, room, u, sc) ==
    [id \in DOMAIN coll |->
        IF /\ coll[id].chatroomId = room
           /\ coll[id].schoolCode = sc
           /\ UnreadBy(coll[id], u)
        THEN [coll[id] EXCEPT !.readBy = addToSet(@, u), !.read = TRUE]
        ELSE coll[id]]

\* A mutant of getUnreadCountForChatroom: the sender's own messages are
\* not excluded.
getUnreadCountWithOwn(coll, room, u, sc) ==
    Cardinality({id \in DOMAIN coll :
                    /\ coll[id].chatroomId = room
                    /\ coll[id].schoolCode = sc
                    /\ u \notin Elems(coll[id].readBy)})

\* MessageModel.countDocuments(filter).
getUnreadCountForChatroom(coll, room, u, sc) ==
    Cardinality({id \in DOMAIN coll :
                    /\ coll[id].chatroomId = room
                    /\ coll[id].schoolCode = sc
                    /\ UnreadBy(coll[id], u)})

\* MessageModel.aggregate([$match, $group by chatroomId]) turned into an
\* object: one key per chatroom that has a matching message.
getUnreadCountsByChatroom(coll, u, sc) ==
    LET matched == {id \in DOMAIN coll :
                       coll[id].schoolCode = sc /\ UnreadBy(coll[id], u)}
        groups == {coll[id].chatroomId : id \in matched}
    IN  [g \in groups |->
            Cardinality({id \in matched : coll[id].chatroomId = g})]

\* FloatingChatService.markMessagesAsRead: updateMany on read: false.
floatingMarkMessagesAsRead(coll, u, sc) ==
    [id \in DOMAIN coll |->
        IF /\ coll[id].schoolCode = sc
           /\ coll[id].sender # u
           /\ coll[id].read = FALSE
        THEN [coll[id] EXCEPT !.readBy = addToSet(@, u), !.read = TRUE]
        ELSE coll[id]]

\* FloatingChatService.getUnreadCount: countDocuments({schoolCode,
\* 'sender.id': {$ne: userId}, read: false}).
floatingGetUnreadCount(coll, u, sc) ==
    Cardinality({id \in DOMAIN coll :
                    /\ coll[id].schoolCode = sc
                    /\ coll[id].sender # u
                    /\ coll[id].read = FALSE})

\* How the storage runs an updateMany.  Each document is written atomically,
\* the operation as a whole is not: it visits the documents one after
\* another, tests the filter on each as it comes to it, and other operations
\* on the collection run between two of its writes.  A document stored when
\* the operation began is visited; one stored while it runs is visited or
\* not.  A request keeps sweeping (the operation has begun), present (the ids
\* stored when it began) and modified (the ids it has written).
\*
\* The steps open to the updateMany of request r, updated being the
\* collection with the update applied everywhere: the id of a document to
\* write, or 0 (no document has it) for the operation to return, once no
\* document stored when it began still matches.
updateManyChoices(r, coll, updated) ==
    LET matching == {id \in DOMAIN coll : updated[id] # coll[id]}
        present == IF r.sweeping THEN r.present ELSE DOMAIN coll
    IN  matching \cup (IF matching \cap present = {} THEN {0} ELSE {})

\* The collection and the request after the step: one document written, or
\* the operation returned and the handler's callback called.
updateManyStep(r, coll, updated, id) ==
    LET begun == [r EXCEPT !.sweeping = TRUE,
                           !.present = IF r.sweeping THEN @ ELSE DOMAIN coll]
    IN  IF id = 0
        THEN [coll |-> coll, req |-> [begun EXCEPT !.pc = "done", !.ack = "ok"]]
        ELSE [coll |-> [coll EXCEPT ![id] = updated[id]],
              req |-> [begun EXCEPT !.modified = @ \cup {id}]]

---------------------------------------------------------------------------
(* io.on('connection') and socket.on('join-room').                         *)

\* connectedClients is a Map, which keeps its entries in the order in which
\* their keys were inserted: get gives the socket of a user ("none" when
\* there is no entry), set replaces the socket of an entry where it stands
\* or appends a new entry, delete removes the entry.
mapHas(map, u) == \E j \in 1..Len(map) : map[j].user = u

mapIndex(map, u) ==
    IF mapHas(map, u) THEN CHOOSE j \in 1..Len(map) : map[j].user = u ELSE 0

mapGet(map, u) == IF mapHas(map, u) THEN map[mapIndex(map, u)].socket ELSE NoSocket

mapSet(map, u, k) ==
    IF mapHas(map, u)
    THEN [map EXCEPT ![mapIndex(map, u)].socket = k]
    ELSE Append(map, [user |-> u, socket |-> k])

mapDelete(map, u) ==
    LET kept(e) == e.user # u
    IN  SelectSeq(map, kept)

\* The registry after the sockets of the sequence ks have connected in turn.
RECURSIVE Registered(_)
Registered(ks) ==
    IF ks = <<>> THEN <<>>
    ELSE mapSet(Registered(SubSeq(ks, 1, Len(ks) - 1)),
                SockUser(ks[Len(ks)]), ks[Len(ks)])

\* The orders in which the sockets of K can have connected.
Orders(K) ==
    {ks \in [1..Cardinality(K) -> K] :
        \A a, b \in 1..Cardinality(K) : a # b => ks[a] # ks[b]}

\* The registries after the sockets of K have connected, in any order, and
\* the one after they have connected in the order of their names.
RegistriesOf(K) == {Registered(ks) : ks \in Orders(K)}

ClientsOf(K) ==
    LET ordered(k) == k \in K
    IN  Registered(SelectSeq(<<"k1", "k2", "k3", "k4", "k5">>, ordered))

OnlineOf(K) ==
    [sc \in Schools |-> {SockUser(k) : k \in {x \in K : schoolCode(SockUser(x)) = sc}}]

\* The secret the tokens are signed with, and jwt.verify: a token verifies
\* when it was signed with the server's secret.
JWT_SECRET == "secret"

jwtVerify(token) == token.key = JWT_SECRET

\* The tokens a client of socket k can present: none, one signed by the
\* login service for the user of k, one for the same user signed with
\* another key.
TokensOf(k) ==
    {NoToken} \cup {[userId |-> SockUser(k), key |-> key] : key \in {JWT_SECRET, "other"}}

NoUser == "null"

verifyTokenUnverified(token) ==
    IF token = NoToken THEN NoUser ELSE token.userId

\* verifyToken as far as it decides without awaiting: null for a missing
\* token and for one that jwt.verify rejects, else the user of the payload.
verifyToken(token) ==
    IF token = NoToken THEN NoUser
    ELSE IF jwtVerify(token) THEN token.userId
    ELSE NoUser

addOnlineUser(online, u) == [online EXCEPT ![schoolCode(u)] = @ \cup {u}]

removeOnlineUser(online, u) == [online EXCEPT ![schoolCode(u)] = @ \ {u}]

\* next() of io.use without an error, and the io.on('connection') handler
\* for the request at position i of rs: the socket is registered, the user
\* is added to the online set, the socket joins the school room and
\* user-online is emitted to it (the socket's handlers are registered here,
\* so only a connected socket has its events handled).
Admit(rs, i) ==
    LET k == rs[i].sock
        user == rs[i].token.userId
    IN  /\ reqs' = [rs EXCEPT ![i].pc = "done", ![i].ack = "ok"]
        /\ connected' = connected \cup {k}
        /\ connectedClients' = mapSet(connectedClients, user, k)
        /\ onlineUsersBySchool' = addOnlineUser(onlineUsersBySchool, user)
        /\ rooms' = [rooms EXCEPT ![k] = {SchoolRoom(user)}]
        /\ inbox' = Emit(inbox, ioTo(SchoolRoom(user), k) \cup {k},
                         <<"user-online", user>>)

\* The storage operation an HTTP route awaits once its service method has
\* its connection.
ServicePc(kind) == IF kind = "post-floating-mark-read" THEN "markRead" ELSE "find"

\* The request of a route whose service method has made call: the method
\* goes on to its query, waits for the retry timer, or rejects, and then
\* the catch of the route answers 500.
Called(req, call) ==
    IF call.result = "handle" THEN [req EXCEPT !.pc = ServicePc(req.kind)]
    ELSE IF call.pc = "retryWait" THEN [req EXCEPT !.pc = "connectService"]
    ELSE [req EXCEPT !.pc = "done", !.ack = "error"]

\* verifyToken has returned the user to the handler of the request at
\* position i of rs (found: the lookup gave classCode and groups), the calls
\* so far being cs.  The handshake lets the connection through; a route
\* calls its service method, which runs up to its first await.
AfterVerify(rs, cs, i, found, throws) ==
    IF rs[i].kind = "connect"
    THEN /\ Admit(rs, i)
         /\ calls' = cs
         /\ UNCHANGED <<connections, connectionCache>>
    ELSE LET user == rs[i].token.userId
             call == startCall(userDomain(user), throws, i)
         IN  /\ reqs' = [rs EXCEPT ![i] =
                            Called([rs[i] EXCEPT !.user = user, !.found = found], call)]
             /\ connectFrom(cs, userDomain(user), throws, i)
             /\ UNCHANGED <<connected, rooms, connectedClients,
                            onlineUsersBySchool, inbox>>

\* A handler answers at once: no storage operation is started.
Refuse(req, ack) ==
    /\ reqs' = Append(reqs, [req EXCEPT !.pc = "done", !.ack = ack])
    /\ UNCHANGED <<connected, rooms, connectedClients, onlineUsersBySchool,
                   inbox, dbVars>>

\* await verifyToken(req.token) of a new handler invocation req, for a token
\* that jwt.verify accepts, up to the first await: verifyToken calls
\* connectToDatabase and then awaits findOne on the user's collection, or
\* waits for the retry timer; when connectToDatabase rejects at once its
\* catch returns the user without classCode and groups.
AwaitVerifyToken(req, throws) ==
    LET i == Len(reqs) + 1
        d == userDomain(req.token.userId)
        call == startCall(d, throws, i)
    IN  IF call.pc = "done" /\ call.result # "handle"
        THEN AfterVerify(Append(reqs, req), Append(calls, call), i, FALSE, throws)
        ELSE /\ reqs' = Append(reqs, [req EXCEPT !.pc =
                            IF call.result = "handle" THEN "findUser"
                            ELSE "connectVerify"])
             /\ connectToDatabase(d, throws, i)
             /\ UNCHANGED <<connected, rooms, connectedClients,
                            onlineUsersBySchool, inbox>>

\* The io.use middleware up to its first await, for a new socket k: without
\* a token the connection is refused with 'Authentication required'; a
\* token that jwt.verify rejects makes verifyToken return null without
\* awaiting anything, and the connection is refused with 'Invalid token';
\* otherwise verifyToken is awaited.
Handshake(k, token, throws) ==
    /\ k \notin connected
    /\ \A i \in 1..Len(reqs) : ~(reqs[i].kind = "connect" /\ reqs[i].sock = k)
    /\ LET req == [NewReq("connect", k, "", "findUser") EXCEPT !.token = token]
       IN  IF token = NoToken THEN Refuse(req, "Authentication required")
           ELSE IF verifyToken(token) = NoUser THEN Refuse(req, "Invalid token")
           ELSE AwaitVerifyToken(req, throws)
    /\ UNCHANGED <<store, floating, nextId, rateLimiters, now>>

\* The awaited findOne of verifyToken in io.use and what follows it:
\* whatever the lookup gives (a rejection is caught), verifyToken returns
\* the user and the connection is let through.  verifyToken catches every
\* error itself, so the catch of io.use is never entered.
Connection(i) ==
    /\ Waiting(i, "connect", "findUser")
    /\ AfterVerify(reqs, calls, i, FALSE, FALSE)
    /\ UNCHANGED <<store, floating, nextId, rateLimiters, now>>

\* The timer of a waiting call fires: connectWithRetry runs again, and a
\* handler that awaits the call goes on when the call returns or rejects.
\* A rejection inside verifyToken is caught there and the user is returned
\* (again: whether createConnection throws for the service method the
\* route then calls); a rejection inside a service method reaches the
\* catch of the route.
Retry(c, throws, again) ==
    /\ c \in 1..Len(calls)
    /\ calls[c].pc = "retryWait"
    /\ now >= calls[c].wakeAt
    /\ LET call == connectWithRetry(calls[c], throws)
           cs == [calls EXCEPT ![c] = call]
           i == calls[c].owner
       IN  IF i # 0 /\ call.result = "connectError" /\ reqs[i].pc = "connectVerify"
           THEN AfterVerify(reqs, cs, i, FALSE, again)
           ELSE /\ calls' = cs
                /\ connections' = Created(calls[c], throws)
                /\ connectionCache' = Cached(calls[c], throws)
                /\ reqs' = IF i = 0 \/ call.pc = "retryWait" THEN reqs
                           ELSE IF call.result = "connectError" THEN Finish(i, "error")
                           ELSE IF reqs[i].pc = "connectVerify"
                           THEN [reqs EXCEPT ![i].pc = "findUser"]
                           ELSE [reqs EXCEPT ![i].pc = ServicePc(reqs[i].kind)]
                /\ UNCHANGED <<connected, rooms, connectedClients,
                               onlineUsersBySchool, inbox>>
    /\ UNCHANGED <<store, floating, nextId, rateLimiters, now>>

\* The unread-counts loops that are under way when the entry at position d
\* is deleted from connectedClients: a Map iterator that has passed the
\* entry goes on with the entry that followed it.
afterDelete(rs, d) ==
    [i \in 1..Len(rs) |->
        IF rs[i].pc = "fanout" /\ d > 0 /\ rs[i].cursor >= d
        THEN [rs[i] EXCEPT !.cursor = @ - 1]
        ELSE rs[i]]

\* The disconnect handler of socket k.  The socket has left its rooms when
\* 'disconnect' is emitted, so the user-stopped-typing loop over
\* socket.rooms has nothing to visit.
Disconnect(k) ==
    /\ k \in connected
    /\ connected' = connected \ {k}
    /\ rooms' = [rooms EXCEPT ![k] = {}]
    /\ connectedClients' = mapDelete(connectedClients, SockUser(k))
    /\ reqs' = afterDelete(reqs, mapIndex(connectedClients, SockUser(k)))
    /\ onlineUsersBySchool' = removeOnlineUser(onlineUsersBySchool, SockUser(k))
    /\ inbox' = Emit(inbox, ioTo(SchoolRoom(SockUser(k)), k) \ {k},
                     <<"user-offline", SockUser(k)>>)
    /\ UNCHANGED <<store, floating, nextId, rateLimiters, now, dbVars>>

JoinRoomKeepingRooms(k, room) ==
    /\ k \in connected
    /\ rooms' = [rooms EXCEPT ![k] = @ \cup {room}]
    /\ reqs' = Append(reqs, NewReq("join-room", k, room, "getMessages"))
    /\ UNCHANGED <<store, floating, nextId, connected, connectedClients,
                   onlineUsersBySchool, rateLimiters, now, inbox, dbVars>>

\* join-room up to its first await: every joined room is left, chatroomId
\* is joined; the handler then loads the messages and marks them read.
JoinRoom(k, room) ==
    /\ k \in connected
    /\ rooms' = [rooms EXCEPT ![k] = {room}]
    /\ reqs' = Append(reqs, NewReq("join-room", k, room, "getMessages"))
    /\ UNCHANGED <<store, floating, nextId, connected, connectedClients,
                   onlineUsersBySchool, rateLimiters, now, inbox, dbVars>>

\* mark-messages-read up to its first await: the chatroom id is required.
MarkMessagesRead(k, room) ==
    /\ k \in connected
    /\ LET req == NewReq("mark-messages-read", k, room, "markRead")
       IN  IF room = ""
           THEN reqs' = Append(reqs, [req EXCEPT !.pc = "done", !.ack = "missing"])
           ELSE reqs' = Append(reqs, req)
    /\ UNCHANGED <<store, floating, nextId, connected, rooms,
                   connectedClients, onlineUsersBySchool, rateLimiters, now, inbox, dbVars>>

\* The awaited getMessages (floating room) or getChatroomMessages (any other
\* room, with the default limit and no cursor) of join-room: the handler
\* keeps the documents as they were read and goes on to mark them read.
GetMessages(i) ==
    /\ Waiting(i, "join-room", "getMessages")
    /\ LET r == reqs[i]
           sc == schoolCode(SockUser(r.sock))
       IN  IF r.room = FloatingRoom
           THEN \E sorted \in SortedByTimestampDesc(floating,
                                  {id \in DOMAIN floating : floating[id].schoolCode = sc}) :
                   reqs' = [reqs EXCEPT
                               ![i].pc = "markRead",
                               ![i].messages = getMessages(floating, sorted, FloatingLimit)]
           ELSE \E sorted \in SortedByTimestampDesc(store,
                                  Matching(store, r.room, sc, -1)) :
                   LET result == getChatroomMessages(store, sorted, DefaultLimit)
                   IN  reqs' = [reqs EXCEPT
                                   ![i].pc = "markRead",
                                   ![i].messages = [j \in 1..Len(result.messages) |->
                                                       store[result.messages[j]]],
                                   ![i].hasMore = result.hasMore,
                                   ![i].nextCursor = result.nextCursor]
    /\ UNCHANGED <<store, floating, nextId, connected, rooms,
                   connectedClients, onlineUsersBySchool, rateLimiters, now, inbox, dbVars>>

\* The awaited markMessagesAsRead of join-room and mark-messages-read: a
\* step of its updateMany, which writes one document or returns; when it
\* returns the callback is called (for join-room it carries the messages
\* read before the marking).
MarkReadStep(i) ==
    /\ i \in 1..Len(reqs)
    /\ reqs[i].kind \in {"join-room", "mark-messages-read"}
    /\ reqs[i].pc = "markRead"
    /\ LET r == reqs[i]
           u == SockUser(r.sock)
       IN  IF r.kind = "join-room" /\ r.room = FloatingRoom
           THEN LET updated == floatingMarkMessagesAsRead(floating, u, schoolCode(u))
                IN  \E id \in updateManyChoices(r, floating, updated) :
                       LET step == updateManyStep(r, floating, updated, id)
                       IN  /\ floating' = step.coll
                           /\ store' = store
                           /\ reqs' = [reqs EXCEPT ![i] = step.req]
           ELSE LET updated == markMessagesAsRead(store, r.room, u, schoolCode(u))
                IN  \E id \in updateManyChoices(r, store, updated) :
                       LET step == updateManyStep(r, store, updated, id)
                       IN  /\ store' = step.coll
                           /\ floating' = floating
                           /\ reqs' = [reqs EXCEPT ![i] = step.req]
    /\ UNCHANGED <<nextId, connected, rooms, connectedClients,
                   onlineUsersBySchool, rateLimiters, now, inbox, dbVars>>

\* An awaited storage operation of join-room or mark-messages-read rejects:
\* the handler's catch acknowledges the failure.
MarkReadFails(i) ==
    /\ i \in 1..Len(reqs)
    /\ reqs[i].kind \in {"join-room", "mark-messages-read"}
    /\ reqs[i].pc \in {"getMessages", "markRead"}
    /\ reqs' = Finish(i, "error")
    /\ UNCHANGED <<store, floating, nextId, connected, rooms,
                   connectedClients, onlineUsersBySchool, rateLimiters, now, inbox, dbVars>>

\* typing-start and typing-stop: without a chatroom id nothing happens;
\* otherwise the event goes to the other sockets of the room the client
\* named.  The handlers are synchronous and acknowledge nothing.
TypingStart(k, room) ==
    /\ k \in connected
    /\ reqs' = Append(reqs, NewReq("typing-start", k, room, "done"))
    /\ inbox' = IF room = "" THEN inbox
                ELSE Emit(inbox, socketTo(room, k), <<"user-typing", room, SockUser(k)>>)
    /\ UNCHANGED <<store, floating, nextId, connected, rooms,
                   connectedClients, onlineUsersBySchool, rateLimiters, now, dbVars>>

TypingStop(k, room) ==
    /\ k \in connected
    /\ reqs' = Append(reqs, NewReq("typing-stop", k, room, "done"))
    /\ inbox' = IF room = "" THEN inbox
                ELSE Emit(inbox, socketTo(room, k),
                          <<"user-stopped-typing", room, SockUser(k)>>)
    /\ UNCHANGED <<store, floating, nextId, connected, rooms,
                   connectedClients, onlineUsersBySchool, rateLimiters, now, dbVars>>

\* POST /api/floating-chat/mark-read up to its first await: without a
\* token the answer is 401 'Authentication required'; a token that
\* jwt.verify rejects is answered 401 'Invalid token'; otherwise
\* verifyToken is awaited.
PostFloatingMarkRead(token, throws) ==
    /\ LET req == [NewReq("post-floating-mark-read", NoSocket, FloatingRoom, "findUser")
                      EXCEPT !.token = token]
       IN  IF token = NoToken THEN Refuse(req, "Authentication required")
           ELSE IF verifyToken(token) = NoUser THEN Refuse(req, "Invalid token")
           ELSE AwaitVerifyToken(req, throws)
    /\ UNCHANGED <<store, floating, nextId, rateLimiters, now>>

\* The awaited findOne of verifyToken in the route and what follows it:
\* the user is returned and floatingChatService.markMessagesAsRead is
\* called, which runs up to its first await.
VerifyFloatingMarkRead(i, throws) ==
    /\ Waiting(i, "post-floating-mark-read", "findUser")
    /\ AfterVerify(reqs, calls, i, FALSE, throws)
    /\ UNCHANGED <<store, floating, nextId, rateLimiters, now>>

\* The awaited floatingChatService.markMessagesAsRead of the route: a step
\* of its updateMany, which writes one document or returns; when it returns
\* the response is {success: true, result}.
FloatingMarkReadStep(i) ==
    /\ Waiting(i, "post-floating-mark-read", "markRead")
    /\ LET r == reqs[i]
           updated == floatingMarkMessagesAsRead(floating, r.user, schoolCode(r.user))
       IN  \E id \in updateManyChoices(r, floating, updated) :
              LET step == updateManyStep(r, floating, updated, id)
              IN  /\ floating' = step.coll
                  /\ reqs' = [reqs EXCEPT ![i] = step.req]
    /\ UNCHANGED <<store, nextId, connected, rooms, connectedClients,
                   onlineUsersBySchool, rateLimiters, now, inbox, dbVars>>

\* load-more-messages up to its await: the chatroom id is required.
LoadMoreMessages(k, room, before, limit) ==
    /\ k \in connected
    /\ LET req == [NewReq("load-more-messages", k, room, "find") EXCEPT
                      !.before = before, !.limit = limit]
       IN  IF room = ""
           THEN reqs' = Append(reqs, [req EXCEPT !.pc = "done", !.ack = "missing"])
           ELSE reqs' = Append(reqs, req)
    /\ UNCHANGED <<store, floating, nextId, connected, rooms,
                   connectedClients, onlineUsersBySchool, rateLimiters, now, inbox, dbVars>>

\* The awaited getChatroomMessages and the callback that carries the page.
FindMessages(i) ==
    /\ Waiting(i, "load-more-messages", "find")
    /\ LET r == reqs[i]
           sc == schoolCode(SockUser(r.sock))
       IN  \E sorted \in SortedByTimestampDesc(store,
                             Matching(store, r.room, sc, r.before)) :
              LET result == getChatroomMessages(store, sorted, r.limit)
              IN  reqs' = [Finish(i, "ok") EXCEPT
                              ![i].messages = result.messages,
                              ![i].hasMore = result.hasMore,
                              ![i].nextCursor = result.nextCursor]
    /\ UNCHANGED <<store, floating, nextId, connected, rooms,
                   connectedClients, onlineUsersBySchool, rateLimiters, now, inbox, dbVars>>

\* get-chatroom-unread-count up to its await: the chatroom id is required.
GetChatroomUnreadCount(k, room) ==
    /\ k \in connected
    /\ LET req == NewReq("get-chatroom-unread-count", k, room, "count")
       IN  IF room = ""
           THEN reqs' = Append(reqs, [req EXCEPT !.pc = "done", !.ack = "missing"])
           ELSE reqs' = Append(reqs, req)
    /\ UNCHANGED <<store, floating, nextId, connected, rooms,
                   connectedClients, onlineUsersBySchool, rateLimiters, now, inbox, dbVars>>

\* get-unread-counts up to its await.
GetUnreadCounts(k) ==
    /\ k \in connected
    /\ reqs' = Append(reqs, NewReq("get-unread-counts", k, "", "count"))
    /\ UNCHANGED <<store, floating, nextId, connected, rooms,
                   connectedClients, onlineUsersBySchool, rateLimiters, now, inbox, dbVars>>

\* The awaited getUnreadCountForChatroom or getUnreadCountsByChatroom and
\* the callback that carries the result.
CountUnread(i) ==
    /\ i \in 1..Len(reqs)
    /\ reqs[i].kind \in {"get-chatroom-unread-count", "get-unread-counts"}
    /\ reqs[i].pc = "count"
    /\ LET u == SockUser(reqs[i].sock)
       IN  reqs' = IF reqs[i].kind = "get-unread-counts"
                   THEN [Finish(i, "ok") EXCEPT ![i].counts =
                            getUnreadCountsByChatroom(store, u, schoolCode(u))]
                   ELSE [Finish(i, "ok") EXCEPT ![i].count =
                            getUnreadCountForChatroom(store, reqs[i].room, u,
                                                      schoolCode(u))]
    /\ UNCHANGED <<store, floating, nextId, connected, rooms,
                   connectedClients, onlineUsersBySchool, rateLimiters, now, inbox, dbVars>>

\* get-floating-unread-count up to its await.
GetFloatingUnreadCount(k) ==
    /\ k \in connected
    /\ reqs' = Append(reqs, NewReq("get-floating-unread-count", k, FloatingRoom, "count"))
    /\ UNCHANGED <<store, floating, nextId, connected, rooms,
                   connectedClients, onlineUsersBySchool, rateLimiters, now, inbox, dbVars>>

\* The awaited getUnreadCount and the callback that carries the count.
CountFloatingUnread(i) ==
    /\ Waiting(i, "get-floating-unread-count", "count")
    /\ LET u == SockUser(reqs[i].sock)
       IN  reqs' = [Finish(i, "ok") EXCEPT
                       ![i].count = floatingGetUnreadCount(floating, u, schoolCode(u))]
    /\ UNCHANGED <<store, floating, nextId, connected, rooms,
                   connectedClients, onlineUsersBySchool, rateLimiters, now, inbox, dbVars>>

\* The awaited count of get-chatroom-unread-count, get-unread-counts or
\* get-floating-unread-count rejects: the catch acknowledges the failure.
CountFails(i) ==
    /\ i \in 1..Len(reqs)
    /\ reqs[i].kind \in {"get-chatroom-unread-count", "get-unread-counts",
                         "get-floating-unread-count"}
    /\ reqs[i].pc = "count"
    /\ reqs' = Finish(i, "error")
    /\ UNCHANGED <<store, floating, nextId, connected, rooms,
                   connectedClients, onlineUsersBySchool, rateLimiters, now, inbox, dbVars>>

\* The awaited getChatroomMessages of load-more-messages rejects: the catch
\* acknowledges 'Failed to load messages'.
FindMessagesFails(i) ==
    /\ Waiting(i, "load-more-messages", "find")
    /\ reqs' = Finish(i, "error")
    /\ UNCHANGED <<store, floating, nextId, connected, rooms,
                   connectedClients, onlineUsersBySchool, rateLimiters, now, inbox, dbVars>>

\* The awaited markMessagesAsRead of the route rejects: the catch answers
\* 500 'Failed to mark messages as read' and nothing is marked.
FloatingMarkReadFails(i) ==
    /\ Waiting(i, "post-floating-mark-read", "markRead")
    /\ reqs' = Finish(i, "error")
    /\ UNCHANGED <<store, floating, nextId, connected, rooms,
                   connectedClients, onlineUsersBySchool, rateLimiters, now, inbox, dbVars>>

---------------------------------------------------------------------------
(* socket.on('send-message').                                              *)

\* A mutant of isEmptyMessage: the content is not trimmed before the test.
isEmptyMessageUntrimmed(content, file) == content = <<>> /\ ~file

\* !messageData.content.trim() && !messageData.fileAttachment
isEmptyMessage(content, file) == trim(content) = <<>> /\ ~file

\* parseMentions: the runs of word characters that follow an @, without
\* duplicates, in the order of their first occurrence.

\* The class [\w\u0600-\u06FF\.] of mentionRegex: the word characters of
\* ASCII, the full stop, and the block U+0600..U+06FF.
WordChars ==
    {"a", "b", "c", "d", "e", "f", "g", "h", "i", "j", "k", "l",
     "m", "n", "o", "p", "q", "r", "s", "t", "u", "v", "w", "x",
     "y", "z", "A", "B", "C", "D", "E", "F", "G", "H", "I", "J",
     "K", "L", "M", "N", "O", "P", "Q", "R", "S", "T", "U", "V",
     "W", "X", "Y", "Z", "0", "1", "2", "3", "4", "5", "6", "7",
     "8", "9", "_", "."}

HexDigits ==
    <<"0", "1", "2", "3", "4", "5", "6", "7", "8", "9", "A", "B", "C", "D", "E", "F">>

ArabicChars == {"U+06" \o HexDigits[h] \o HexDigits[l] : h, l \in 1..16}

IsWordChar(c) == c \in WordChars \cup ArabicChars

RECURSIVE TakeWord(_)
TakeWord(s) ==
    IF s # <<>> /\ IsWordChar(Head(s)) THEN <<Head(s)>> \o TakeWord(Tail(s)) ELSE <<>>

RECURSIVE MentionMatches(_)
MentionMatches(s) ==
    IF s = <<>> THEN <<>>
    ELSE IF Head(s) = "@" /\ TakeWord(Tail(s)) # <<>>
         THEN LET word == TakeWord(Tail(s))
              IN  <<word>> \o MentionMatches(SubSeq(s, Len(word) + 2, Len(s)))
         ELSE MentionMatches(Tail(s))

RECURSIVE Unique(_)
Unique(s) ==
    IF s = <<>> THEN <<>>
    ELSE LET init == Unique(SubSeq(s, 1, Len(s) - 1))
         IN  IF s[Len(s)] \in Elems(init) THEN init ELSE Append(init, s[Len(s)])

parseMentions(content) == Unique(MentionMatches(content))

\* newMessage.mentions: the array the client sent, or else the names parsed
\* from the content, each as {name}.  An absent field is the empty string.
Mention(n, un) == [name |-> n, username |-> un]

mentionsOf(given, list, content) ==
    IF given THEN list
    ELSE LET names == parseMentions(content)
         IN  [j \in 1..Len(names) |-> Mention(names[j], <<>>)]

SendMessageAfterDenial(k, room, content, file, given, list) ==
    /\ k \in connected
    /\ LET u == SockUser(k)
           req == [NewReq("send-message", k, room, "save") EXCEPT
                      !.content = trim(content), !.file = file,
                      !.mentions = mentionsOf(given, list, content),
                      !.resetIn = IF checkAllowed("messages", u) THEN -1
                                  ELSE checkResetIn("messages", u)]
       IN  /\ rateLimiters' = checkCount("messages", u)
           /\ IF isEmptyMessage(content, file)
              THEN reqs' = Append(reqs, [req EXCEPT !.pc = "done", !.ack = "empty"])
              ELSE reqs' = Append(reqs, req)
    /\ UNCHANGED <<store, floating, nextId, connected, rooms,
                   connectedClients, onlineUsersBySchool, inbox, now, dbVars>>

\* The handler up to its first await: the rate limit, the check that the
\* message is not empty, and the construction of newMessage.
SendMessageWithMentions(k, room, content, file, given, list) ==
    /\ k \in connected
    /\ LET u == SockUser(k)
           req == [NewReq("send-message", k, room, "save") EXCEPT
                      !.content = trim(content), !.file = file,
                      !.mentions = mentionsOf(given, list, content)]
       IN  IF ~checkAllowed("messages", u)
           THEN /\ reqs' = Append(reqs, [req EXCEPT
                                    !.pc = "done", !.ack = "rateLimited",
                                    !.resetIn = checkResetIn("messages", u)])
                /\ rateLimiters' = checkCount("messages", u)
           ELSE /\ rateLimiters' = checkCount("messages", u)
                /\ IF isEmptyMessage(content, file)
                   THEN reqs' = Append(reqs, [req EXCEPT !.pc = "done",
                                                         !.ack = "empty"])
                   ELSE reqs' = Append(reqs, req)
    /\ UNCHANGED <<store, floating, nextId, connected, rooms,
                   connectedClients, onlineUsersBySchool, inbox, now, dbVars>>

\* send-message without a mentions array.
SendMessage(k, room, content, file) ==
    SendMessageWithMentions(k, room, content, file, FALSE, <<>>)

\* chatService.getChatroomById(...).then(...).catch(...), the call that
\* starts the push notification of a send to a persistent room.  ChatService
\* defines no getChatroomById, so the call throws a TypeError, which the
\* inner catch of the handler turns into the failure acknowledgement.
getChatroomByIdThrows == TRUE

\* (m.name || m.username || '').toLowerCase()
mentionedName(m) == toLowerCase(IF m.name # <<>> THEN m.name ELSE m.username)

\* The loop over connectedClients that notifies the mentioned users: the
\* clients of the sender's school, without the sender, whose name or
\* username is one of the mentioned names.
MentionTargets(u, mentions) ==
    {k \in connected :
        /\ mapGet(connectedClients, SockUser(k)) = k
        /\ SockUser(k) # u
        /\ schoolCode(SockUser(k)) = schoolCode(u)
        /\ \E j \in 1..Len(mentions) :
              mentionedName(mentions[j]) \in
                 {toLowerCase(name(SockUser(k))), toLowerCase(username(SockUser(k)))}}

\* A mutant of UnreadTargets: the clients of every school are sent to.
UnreadTargetsOfAllSchools(u) ==
    {k \in connected : mapGet(connectedClients, SockUser(k)) = k /\ SockUser(k) # u}

\* The clients the unread-counts loop sends to: every other client of the
\* sender's school.
UnreadTargets(u) ==
    {k \in connected :
        /\ mapGet(connectedClients, SockUser(k)) = k
        /\ SockUser(k) # u
        /\ schoolCode(SockUser(k)) = schoolCode(u)}

\* for (const [clientUserId, clientSocket] of connectedClients): the
\* position of the first entry after position cursor at which the loop
\* awaits the unread counts, 0 when it reaches the end of the Map first.
NextTarget(u, cursor) ==
    LET later == {j \in (cursor + 1)..Len(connectedClients) :
                     connectedClients[j].socket \in UnreadTargets(u)}
    IN  IF later = {} THEN 0
        ELSE CHOOSE j \in later : \A x \in later : j <= x

\* The loop goes on from position cursor: it ends, or awaits the counts of
\* the client of the next entry.
loopFrom(r, u, cursor) ==
    LET j == NextTarget(u, cursor)
    IN  IF j = 0 THEN [r EXCEPT !.pc = "done", !.ack = "ok"]
        ELSE [r EXCEPT !.pc = "fanout", !.cursor = j,
                       !.target = connectedClients[j].socket]

\* The awaited saveMessage and the code that follows it up to the next
\* await: the broadcast of new-message to the room and, in a persistent
\* room, the call of getChatroomById, whose TypeError ends the handler with
\* the failure acknowledgement; in the floating room the user-mentioned
\* events and, when the unread-counts loop has no client to reach, the
\* success callback.
SaveMessage(i) ==
    /\ Waiting(i, "send-message", "save")
    /\ LET r == reqs[i]
           u == SockUser(r.sock)
           isFloating == r.room = FloatingRoom
           valid == IF isFloating THEN floatingValid(r.content, r.file)
                    ELSE messageValid(r.room, r.content, r.file)
           broadcast == Emit(inbox, ioTo(r.room, r.sock), <<"new-message", nextId>>)
           mentioned == IF isFloating THEN {} ELSE MentionTargets(u, r.mentions)
       IN  IF valid
           THEN /\ IF isFloating
                   THEN /\ floating' = Insert(floating,
                               [NewFloatingMessage(nextId, u, r.content, r.file)
                                   EXCEPT !.timestamp = r.timestamp])
                        /\ store' = store
                   ELSE /\ store' = Insert(store,
                               [NewMessage(nextId, r.room, u, r.content, r.file)
                                   EXCEPT !.mentions = r.mentions,
                                          !.timestamp = r.timestamp])
                        /\ floating' = floating
                /\ nextId' = nextId + 1
                /\ IF ~isFloating /\ getChatroomByIdThrows
                   THEN /\ inbox' = broadcast
                        /\ reqs' = [Finish(i, "saveFailed") EXCEPT ![i].saved = nextId]
                   ELSE /\ inbox' = Emit(broadcast, mentioned,
                                         <<"user-mentioned", nextId, r.room, u,
                                           substring(r.content, PreviewLen)>>)
                        /\ reqs' = [reqs EXCEPT ![i] =
                                       loopFrom([r EXCEPT !.saved = nextId], u, 0)]
           ELSE /\ reqs' = Finish(i, "invalid")
                /\ UNCHANGED <<store, floating, nextId, inbox, now, dbVars>>
    /\ UNCHANGED <<connected, rooms, connectedClients, onlineUsersBySchool,
                   rateLimiters, now, dbVars>>

\* saveMessage rejects: nothing is stored, the inner catch acknowledges.
SaveFails(i) ==
    /\ Waiting(i, "send-message", "save")
    /\ reqs' = Finish(i, "saveFailed")
    /\ UNCHANGED <<store, floating, nextId, connected, rooms,
                   connectedClients, onlineUsersBySchool, rateLimiters, now, inbox, dbVars>>

\* One turn of the unread-counts loop: the awaited getUnreadCountsByChatroom
\* of the client the loop stands at, the emit to that client's socket (a
\* socket that has closed meanwhile is sent nothing), and the loop up to
\* its next await or, after the last entry, the success callback.
NotifyUnreadCounts(i) ==
    /\ Waiting(i, "send-message", "fanout")
    /\ LET r == reqs[i]
           u == SockUser(r.sock)
           k == r.target
           c == SockUser(k)
       IN  /\ inbox' = Emit(inbox, {k} \cap connected,
                            <<"unread-counts-updated",
                              getUnreadCountsByChatroom(store, c, schoolCode(u))>>)
           /\ reqs' = [reqs EXCEPT ![i] =
                         loopFrom([r EXCEPT !.notified = @ \cup {c}], u, r.cursor)]
    /\ UNCHANGED <<store, floating, nextId, connected, rooms,
                   connectedClients, onlineUsersBySchool, rateLimiters, now, dbVars>>

\* One turn of the loop whose getUnreadCountsByChatroom rejects: the error
\* is logged and the loop goes on.
NotifyFails(i) ==
    /\ Waiting(i, "send-message", "fanout")
    /\ LET r == reqs[i]
           u == SockUser(r.sock)
           c == SockUser(r.target)
       IN  reqs' = [reqs EXCEPT ![i] =
                       loopFrom([r EXCEPT !.failedFor = @ \cup {c}], u, r.cursor)]
    /\ UNCHANGED <<store, floating, nextId, connected, rooms,
                   connectedClients, onlineUsersBySchool, rateLimiters, now, inbox, dbVars>>

---------------------------------------------------------------------------
(* ChatService.toggleReaction and socket.on('toggle-reaction').            *)
(*                                                                         *)
(* toggleReaction reads the document (findOne), changes its reactions Map  *)
(* in memory and writes it back with document.save(), which sends only the *)
(* paths the handler modified: reactions.<emoji> is $set for a bucket that *)
(* was set and $unset for a bucket that was deleted.                       *)

Buckets(reactions) == DOMAIN reactions

BucketsOf(reactions, u) == {e \in DOMAIN reactions : u \in Elems(reactions[e])}

\* The loop over message.reactions.entries(): the user is spliced out of
\* every bucket that holds it.
WithoutUser(reactions, e, u) ==
    IF e \in DOMAIN reactions THEN RemoveFirst(reactions[e], u) ELSE <<>>

\* The buckets the handler calls set or delete on.
Touched(reactions, emoji, u) == BucketsOf(reactions, u) \cup {emoji}

\* The users of a touched bucket when save is called (<<>>: deleted).  The
\* clicked emoji's bucket is created, or pushed to, after the removal loop,
\* whether or not the user was just removed from it.
ToggleDelta(reactions, emoji, u) ==
    [e \in Touched(reactions, emoji, u) |->
        IF e = emoji
        THEN Append(WithoutUser(reactions, e, u), u)
        ELSE WithoutUser(reactions, e, u)]

\* The reactions Map after the write of delta.
ApplyDelta(reactions, delta) ==
    LET kept == (DOMAIN reactions \ DOMAIN delta)
                   \cup {e \in DOMAIN delta : delta[e] # <<>>}
    IN  [e \in kept |-> IF e \in DOMAIN delta THEN delta[e] ELSE reactions[e]]

\* toggleReaction run without interruption on a reactions Map.
toggleReaction(reactions, emoji, u) ==
    ApplyDelta(reactions, ToggleDelta(reactions, emoji, u))

\* A mutant of findOne: the filter has no schoolCode.
findOneOfAnySchool(coll, mid, sc) == mid \in DOMAIN coll

\* MessageModel.findOne({_id: messageId, schoolCode}).
findOne(coll, mid, sc) == mid \in DOMAIN coll /\ coll[mid].schoolCode = sc

\* The handler up to its first await: the rate limit and the required fields.
ToggleReaction(k, mid, room, emoji) ==
    /\ k \in connected
    /\ LET u == SockUser(k)
           req == [NewReq("toggle-reaction", k, room, "find") EXCEPT
                      !.mid = mid, !.emoji = emoji]
       IN  IF ~checkAllowed("reactions", u)
           THEN /\ reqs' = Append(reqs, [req EXCEPT
                                    !.pc = "done", !.ack = "rateLimited",
                                    !.resetIn = checkResetIn("reactions", u)])
                /\ rateLimiters' = checkCount("reactions", u)
           ELSE /\ rateLimiters' = checkCount("reactions", u)
                /\ IF mid = 0 \/ room = "" \/ emoji = ""
                   THEN reqs' = Append(reqs, [req EXCEPT !.pc = "done",
                                                         !.ack = "missing"])
                   ELSE reqs' = Append(reqs, req)
    /\ UNCHANGED <<store, floating, nextId, connected, rooms,
                   connectedClients, onlineUsersBySchool, inbox, now, dbVars>>

\* The awaited findOne and the in-memory changes up to message.save().
FindForReaction(i) ==
    /\ Waiting(i, "toggle-reaction", "find")
    /\ LET r == reqs[i]
           u == SockUser(r.sock)
       IN  IF findOne(store, r.mid, schoolCode(u))
           THEN reqs' = [reqs EXCEPT
                           ![i].pc = "save",
                           ![i].delta = ToggleDelta(store[r.mid].reactions, r.emoji, u)]
           ELSE reqs' = Finish(i, "notFound")
    /\ UNCHANGED <<store, floating, nextId, connected, rooms,
                   connectedClients, onlineUsersBySchool, rateLimiters, now, inbox, dbVars>>

\* The awaited message.save(): the modified buckets are written.  A
\* document that no longer exists makes save reject.
SaveReaction(i) ==
    /\ Waiting(i, "toggle-reaction", "save")
    /\ LET r == reqs[i]
       IN  IF r.mid \in DOMAIN store
           THEN /\ store' = [store EXCEPT ![r.mid].reactions = ApplyDelta(@, r.delta)]
                /\ reqs' = [reqs EXCEPT ![i].pc = "refetch"]
           ELSE /\ store' = store
                /\ reqs' = Finish(i, "error")
    /\ UNCHANGED <<floating, nextId, connected, rooms, connectedClients,
                   onlineUsersBySchool, rateLimiters, now, inbox, dbVars>>

\* The awaited findById, the broadcast of the reactions read back to the
\* room the client named, and the success callback.
RefetchReaction(i) ==
    /\ Waiting(i, "toggle-reaction", "refetch")
    /\ LET r == reqs[i]
       IN  IF r.mid \in DOMAIN store
           THEN /\ inbox' = Emit(inbox, ioTo(r.room, r.sock),
                                 <<"message-reaction-updated", r.mid,
                                   store[r.mid].reactions>>)
                /\ reqs' = Finish(i, "ok")
           ELSE /\ inbox' = inbox
                /\ reqs' = Finish(i, "error")
    /\ UNCHANGED <<store, floating, nextId, connected, rooms,
                   connectedClients, onlineUsersBySchool, rateLimiters, now, dbVars>>

\* A storage operation of toggleReaction rejects: its catch returns
\* success: false, whatever has been written before.
ToggleFails(i) ==
    /\ i \in 1..Len(reqs)
    /\ reqs[i].kind = "toggle-reaction"
    /\ reqs[i].pc \in {"find", "save", "refetch"}
    /\ reqs' = Finish(i, "error")
    /\ UNCHANGED <<store, floating, nextId, connected, rooms,
                   connectedClients, onlineUsersBySchool, rateLimiters, now, inbox, dbVars>>

---------------------------------------------------------------------------
(* ChatService.pinMessage, unpinMessage, getPinnedMessages and the         *)
(* handlers of pin-message and unpin-message.                              *)

\* The documents matched by {chatroomId, schoolCode, pinned: true}.
PinnedIn(coll, room, sc) ==
    {id \in DOMAIN coll :
        /\ coll[id].chatroomId = room
        /\ coll[id].schoolCode = sc
        /\ coll[id].pinned}

\* A mutant of limitReached: the comparison is off by one.
limitReachedOffByOne(pinnedCount) == pinnedCount > MaxPinned

\* if (pinnedCount >= 3)
limitReached(pinnedCount) == pinnedCount >= MaxPinned

\* sort({pinnedAt: -1}): the orders of ids by descending pinnedAt.  The
\* order of documents with equal pinnedAt is the storage's choice.
SortedByPinnedAtDesc(coll, ids) ==
    {s \in [1..Cardinality(ids) -> ids] :
        /\ \A a, b \in 1..Cardinality(ids) : a # b => s[a] # s[b]
        /\ \A a, b \in 1..Cardinality(ids) :
              a < b => coll[s[a]].pinnedAt >= coll[s[b]].pinnedAt}

\* find({chatroomId, schoolCode, pinned: true}).sort({pinnedAt: -1}).limit(3)
\* when the sort gave the order sorted.
getPinnedMessages(sorted) ==
    IF Len(sorted) > MaxPinned THEN SubSeq(sorted, 1, MaxPinned) ELSE sorted

\* pin-message and unpin-message up to the first await: the required fields.
PinMessage(k, mid, room) ==
    /\ k \in connected
    /\ LET req == [NewReq("pin-message", k, room, "count") EXCEPT !.mid = mid]
       IN  IF mid = 0 \/ room = ""
           THEN reqs' = Append(reqs, [req EXCEPT !.pc = "done", !.ack = "missing"])
           ELSE reqs' = Append(reqs, req)
    /\ UNCHANGED <<store, floating, nextId, connected, rooms,
                   connectedClients, onlineUsersBySchool, rateLimiters, now, inbox, dbVars>>

UnpinMessage(k, mid, room) ==
    /\ k \in connected
    /\ LET req == [NewReq("unpin-message", k, room, "update") EXCEPT !.mid = mid]
       IN  IF mid = 0 \/ room = ""
           THEN reqs' = Append(reqs, [req EXCEPT !.pc = "done", !.ack = "missing"])
           ELSE reqs' = Append(reqs, req)
    /\ UNCHANGED <<store, floating, nextId, connected, rooms,
                   connectedClients, onlineUsersBySchool, rateLimiters, now, inbox, dbVars>>

\* pinMessage: the awaited countDocuments over the chatroom the client
\* named; below the limit, findOneAndUpdate is issued with pinnedAt: new
\* Date(), the time of this step.
CountPinned(i) ==
    /\ Waiting(i, "pin-message", "count")
    /\ LET r == reqs[i]
           sc == schoolCode(SockUser(r.sock))
       IN  IF limitReached(Cardinality(PinnedIn(store, r.room, sc)))
           THEN reqs' = Finish(i, "limit")
           ELSE reqs' = [reqs EXCEPT ![i].pc = "update", ![i].at = now]
    /\ UNCHANGED <<store, floating, nextId, connected, rooms,
                   connectedClients, onlineUsersBySchool, rateLimiters, now, inbox, dbVars>>

\* The awaited findOneAndUpdate({_id: messageId, schoolCode}, ...) of
\* pinMessage and of unpinMessage.
UpdatePinned(i) ==
    /\ i \in 1..Len(reqs)
    /\ reqs[i].kind \in {"pin-message", "unpin-message"}
    /\ reqs[i].pc = "update"
    /\ LET r == reqs[i]
           u == SockUser(r.sock)
       IN  IF findOne(store, r.mid, schoolCode(u))
           THEN /\ store' =
                      IF r.kind = "pin-message"
                      THEN [store EXCEPT ![r.mid].pinned = TRUE,
                                         ![r.mid].pinnedAt = r.at,
                                         ![r.mid].pinnedBy = u]
                      ELSE [store EXCEPT ![r.mid].pinned = FALSE,
                                         ![r.mid].pinnedAt = -1,
                                         ![r.mid].pinnedBy = ""]
                /\ reqs' = [reqs EXCEPT ![i].pc = "list"]
           ELSE /\ store' = store
                /\ reqs' = Finish(i, "notFound")
    /\ UNCHANGED <<floating, nextId, connected, rooms, connectedClients,
                   onlineUsersBySchool, rateLimiters, now, inbox, dbVars>>

\* The awaited getPinnedMessages, the broadcast of the list to the room the
\* client named, and the success callback.
ListPinned(i) ==
    /\ i \in 1..Len(reqs)
    /\ reqs[i].kind \in {"pin-message", "unpin-message"}
    /\ reqs[i].pc = "list"
    /\ LET r == reqs[i]
           sc == schoolCode(SockUser(r.sock))
       IN  \E sorted \in SortedByPinnedAtDesc(store, PinnedIn(store, r.room, sc)) :
              inbox' = Emit(inbox, ioTo(r.room, r.sock),
                            <<"pinned-messages-updated", r.room,
                              getPinnedMessages(sorted)>>)
    /\ reqs' = Finish(i, "ok")
    /\ UNCHANGED <<store, floating, nextId, connected, rooms,
                   connectedClients, onlineUsersBySchool, rateLimiters, now, dbVars>>

\* A storage operation of the handler rejects: the failure is acknowledged,
\* whatever has been written before.
PinFails(i) ==
    /\ i \in 1..Len(reqs)
    /\ reqs[i].kind \in {"pin-message", "unpin-message"}
    /\ reqs[i].pc \in {"count", "update", "list"}
    /\ reqs' = Finish(i, "error")
    /\ UNCHANGED <<store, floating, nextId, connected, rooms,
                   connectedClients, onlineUsersBySchool, rateLimiters, now, inbox, dbVars>>

---------------------------------------------------------------------------
(* ChatService.editMessage and socket.on('edit-message').                  *)

\* A mutant of mayEdit: the sender is not checked.
mayEditAnyMessage(doc, u) == TRUE

\* message.sender.id !== userId refuses the edit.
mayEdit(doc, u) == doc.sender = u

\* The handler up to its first await: the required fields (an empty string
\* is a missing field).
EditMessage(k, mid, room, newContent) ==
    /\ k \in connected
    /\ LET req == [NewReq("edit-message", k, room, "find") EXCEPT
                      !.mid = mid, !.content = newContent]
       IN  IF mid = 0 \/ room = "" \/ newContent = <<>>
           THEN reqs' = Append(reqs, [req EXCEPT !.pc = "done", !.ack = "missing"])
           ELSE reqs' = Append(reqs, req)
    /\ UNCHANGED <<store, floating, nextId, connected, rooms,
                   connectedClients, onlineUsersBySchool, rateLimiters, now, inbox, dbVars>>

\* editMessage: the awaited findOne({_id, schoolCode}) and the checks of the
\* sender and of the new content; when they pass, findByIdAndUpdate is
\* issued with editedAt: new Date(), the time of this step.
FindForEdit(i) ==
    /\ Waiting(i, "edit-message", "find")
    /\ LET r == reqs[i]
           u == SockUser(r.sock)
       IN  IF ~findOne(store, r.mid, schoolCode(u))
           THEN reqs' = Finish(i, "notFound")
           ELSE IF ~mayEdit(store[r.mid], u)
           THEN reqs' = Finish(i, "unauthorized")
           ELSE IF trim(r.content) = <<>>
           THEN reqs' = Finish(i, "empty")
           ELSE reqs' = [reqs EXCEPT ![i].pc = "update", ![i].at = now]
    /\ UNCHANGED <<store, floating, nextId, connected, rooms,
                   connectedClients, onlineUsersBySchool, rateLimiters, now, inbox, dbVars>>

\* The awaited findByIdAndUpdate(messageId, {$set: ...}, {new: true}), the
\* broadcast of message-edited to the room the client named and the success
\* callback.  For a message that is gone the update returns null and the
\* handler fails on result.updatedMessage.content.
UpdateEdited(i) ==
    /\ Waiting(i, "edit-message", "update")
    /\ LET r == reqs[i]
           at == r.at
       IN  IF r.mid \in DOMAIN store
           THEN /\ store' = [store EXCEPT ![r.mid].content = trim(r.content),
                                          ![r.mid].edited = TRUE,
                                          ![r.mid].editedAt = at]
                /\ inbox' = Emit(inbox, ioTo(r.room, r.sock),
                                 <<"message-edited", r.mid, trim(r.content), at>>)
                /\ reqs' = Finish(i, "ok")
           ELSE /\ reqs' = Finish(i, "error")
                /\ UNCHANGED <<store, inbox, now, dbVars>>
    /\ UNCHANGED <<floating, nextId, connected, rooms, connectedClients,
                   onlineUsersBySchool, rateLimiters, now, dbVars>>

\* A storage operation of editMessage rejects: its catch returns
\* success: false.
EditFails(i) ==
    /\ i \in 1..Len(reqs)
    /\ reqs[i].kind = "edit-message"
    /\ reqs[i].pc \in {"find", "update"}
    /\ reqs' = Finish(i, "error")
    /\ UNCHANGED <<store, floating, nextId, connected, rooms,
                   connectedClients, onlineUsersBySchool, rateLimiters, now, inbox, dbVars>>

---------------------------------------------------------------------------
(* deleteMessage of ChatService and of FloatingChatService, and the        *)
(* handlers of delete-message and delete-floating-message.                 *)

\* A mutant of mayDelete: the sender is not checked.
mayDeleteAnyMessage(doc, u) == TRUE

\* ChatService: message.sender.id !== userId refuses the deletion.
mayDelete(doc, u) == doc.sender = u

\* FloatingChatService: message.sender.id !== userId &&
\* message.sender.role !== 'admin' refuses the deletion.
floatingMayDelete(doc, u) == doc.sender = u \/ role(doc.sender) = "admin"

\* deleteOne({_id: messageId})
Remove(coll, id) == [x \in DOMAIN coll \ {id} |-> coll[x]]

\* delete-message up to its first await: the required fields.
DeleteMessage(k, mid, room) ==
    /\ k \in connected
    /\ LET req == [NewReq("delete-message", k, room, "find") EXCEPT !.mid = mid]
       IN  IF mid = 0 \/ room = ""
           THEN reqs' = Append(reqs, [req EXCEPT !.pc = "done", !.ack = "missing"])
           ELSE reqs' = Append(reqs, req)
    /\ UNCHANGED <<store, floating, nextId, connected, rooms,
                   connectedClients, onlineUsersBySchool, rateLimiters, now, inbox, dbVars>>

\* delete-floating-message up to its first await.  The event goes to the
\* room floating-chat.
DeleteFloatingMessage(k, mid) ==
    /\ k \in connected
    /\ LET req == [NewReq("delete-floating-message", k, FloatingRoom, "find")
                      EXCEPT !.mid = mid]
       IN  IF mid = 0
           THEN reqs' = Append(reqs, [req EXCEPT !.pc = "done", !.ack = "missing"])
           ELSE reqs' = Append(reqs, req)
    /\ UNCHANGED <<store, floating, nextId, connected, rooms,
                   connectedClients, onlineUsersBySchool, rateLimiters, now, inbox, dbVars>>

\* deleteMessage: the awaited findOne({_id, schoolCode}) and the check of
\* the sender.
FindForDelete(i) ==
    /\ i \in 1..Len(reqs)
    /\ reqs[i].kind \in {"delete-message", "delete-floating-message"}
    /\ reqs[i].pc = "find"
    /\ LET r == reqs[i]
           u == SockUser(r.sock)
           isFloating == r.kind = "delete-floating-message"
           coll == IF isFloating THEN floating ELSE store
       IN  IF ~findOne(coll, r.mid, schoolCode(u))
           THEN reqs' = Finish(i, "notFound")
           ELSE IF isFloating /\ ~floatingMayDelete(coll[r.mid], u)
           THEN reqs' = Finish(i, "unauthorized")
           ELSE IF ~isFloating /\ ~mayDelete(coll[r.mid], u)
           THEN reqs' = Finish(i, "unauthorized")
           ELSE reqs' = [reqs EXCEPT ![i].pc = "delete"]
    /\ UNCHANGED <<store, floating, nextId, connected, rooms,
                   connectedClients, onlineUsersBySchool, rateLimiters, now, inbox, dbVars>>

\* The awaited deleteOne, the broadcast of message-deleted and the success
\* callback.  deleteOne of a message that is gone deletes nothing and
\* resolves all the same.
DeleteOne(i) ==
    /\ i \in 1..Len(reqs)
    /\ reqs[i].kind \in {"delete-message", "delete-floating-message"}
    /\ reqs[i].pc = "delete"
    /\ LET r == reqs[i]
       IN  /\ IF r.kind = "delete-floating-message"
              THEN floating' = Remove(floating, r.mid) /\ store' = store
              ELSE store' = Remove(store, r.mid) /\ floating' = floating
           /\ inbox' = Emit(inbox, ioTo(r.room, r.sock), <<"message-deleted", r.mid>>)
    /\ reqs' = Finish(i, "ok")
    /\ UNCHANGED <<nextId, connected, rooms, connectedClients,
                   onlineUsersBySchool, rateLimiters, now, dbVars>>

\* A storage operation of deleteMessage rejects: its catch returns
\* success: false.
DeleteFails(i) ==
    /\ i \in 1..Len(reqs)
    /\ reqs[i].kind \in {"delete-message", "delete-floating-message"}
    /\ reqs[i].pc \in {"find", "delete"}
    /\ reqs' = Finish(i, "error")
    /\ UNCHANGED <<store, floating, nextId, connected, rooms,
                   connectedClients, onlineUsersBySchool, rateLimiters, now, inbox, dbVars>>

---------------------------------------------------------------------------
(* The specification of message sending: two connected sockets of one      *)
(* school, each in the room its last join-room left it in.                 *)

SendSockets == {"k1", "k2"}

NoRequests == [t \in {"messages", "reactions"} |-> [u \in Users |-> NoLimit]]

InitSend ==
    /\ store = [id \in {} |-> 0]
    /\ floating = [id \in {} |-> 0]
    /\ nextId = 1
    /\ connected = SendSockets
    /\ rooms = [k \in Sockets |->
                   CASE k = "k1" -> {"R1"} [] k = "k2" -> {FloatingRoom}
                     [] OTHER -> {}]
    /\ connectedClients = ClientsOf(SendSockets)
    /\ onlineUsersBySchool = OnlineOf(SendSockets)
    /\ now = 0
    /\ DbReady
    /\ rateLimiters \in {NoRequests,
                         [NoRequests EXCEPT !["messages"]["u1"] = Counted(MessagesPerWindow - 1)]}
    /\ inbox = [k \in Sockets |-> <<>>]
    /\ reqs = <<>>

SendInputs == {"R1", FloatingRoom} \X Contents \X BOOLEAN

NextSend ==
    \/ \E k \in SendSockets, room \in {"R1", FloatingRoom} :
          Len(reqs) < MaxSendReqs /\ JoinRoom(k, room)
    \/ \E k \in SendSockets, in \in SendInputs :
          Len(reqs) < MaxSendReqs /\ SendMessage(k, in[1], in[2], in[3])
    \/ \E i \in 1..Len(reqs) : SaveMessage(i)
    \/ \E i \in 1..Len(reqs) : SaveFails(i)
    \/ \E i \in 1..Len(reqs) : NotifyUnreadCounts(i)
    \/ \E i \in 1..Len(reqs) : GetMessages(i)
    \/ \E i \in 1..Len(reqs) : MarkReadStep(i)
    \/ \E i \in 1..Len(reqs) : MarkReadFails(i)

SpecSend == InitSend /\ [][NextSend]_vars

---------------------------------------------------------------------------
(* Claims about send-message.                                              *)

IsSend(i) == reqs[i].kind = "send-message"

NewMessageEvent(i) == <<"new-message", reqs[i].saved>>

\* The position of the first occurrence of ev in box, 0 when absent.
RECURSIVE IndexOf(_, _)
IndexOf(box, ev) ==
    IF box = <<>> THEN 0
    ELSE IF Head(box) = ev THEN 1
    ELSE IF IndexOf(Tail(box), ev) = 0 THEN 0
    ELSE 1 + IndexOf(Tail(box), ev)

\* C1: when the save of a send-message for room R succeeds, the step that
\* resumes the handler appends new-message, carrying the persisted id, to
\* every open socket that is joined to R in that step, the sender's included
\* (whether or not the handler goes on to acknowledge success).
C1_BroadcastReachesRoom ==
    [][\A i \in 1..Len(reqs) :
          (Waiting(i, "send-message", "save") /\ reqs'[i].saved # 0)
          => \A k \in InRoom(reqs[i].room) :
                inbox'[k] = Append(inbox[k], <<"new-message", reqs'[i].saved>>)
      ]_vars

\* A send to floating-chat that was acknowledged with success, whose
\* message reached the sender's own socket and another socket of the room.
C1_Witness ==
    \E i \in 1..Len(reqs) :
        /\ IsSend(i) /\ reqs[i].ack = "ok" /\ reqs[i].room = FloatingRoom
        /\ IndexOf(inbox[reqs[i].sock], NewMessageEvent(i)) # 0
        /\ \E k \in Sockets \ {reqs[i].sock} :
              IndexOf(inbox[k], NewMessageEvent(i)) # 0

NewMessageIds ==
    UNION {{ev[2] : ev \in {e \in Elems(inbox[k]) : e[1] = "new-message"}} : k \in Sockets}

SavedIds == {reqs[i].saved : i \in {j \in 1..Len(reqs) : reqs[j].saved # 0}}

\* C2: a send-message whose trimmed content is empty and that has no
\* attachment is finished by the handler before any storage operation, with
\* a failure acknowledgement; it persists nothing, and every stored message
\* and every new-message event belongs to some other, saved, request.
C2_EmptyMessageRejected ==
    /\ \A i \in 1..Len(reqs) :
          (IsSend(i) /\ reqs[i].content = <<>> /\ ~reqs[i].file)
          => /\ reqs[i].pc = "done"
             /\ reqs[i].ack \in {"empty", "rateLimited"}
             /\ reqs[i].saved = 0
    /\ DOMAIN store \cup DOMAIN floating = SavedIds
    /\ NewMessageIds \subseteq SavedIds

\* An empty message sent to R1 while a socket is joined to R1: it was
\* refused and nothing was stored or delivered.
C2_Witness ==
    \E i \in 1..Len(reqs) :
        /\ IsSend(i) /\ reqs[i].content = <<>> /\ ~reqs[i].file
        /\ reqs[i].ack = "empty" /\ reqs[i].room = "R1"
        /\ InRoom("R1") # {}
        /\ DOMAIN store = {}
        /\ \A k \in Sockets : inbox[k] = <<>>

\* C3, as claimed: two sends issued by one socket, both saved, are stored
\* and broadcast in the order they were issued.
C3_SenderOrderKept ==
    \A i, j \in 1..Len(reqs) :
        (/\ i < j /\ IsSend(i) /\ IsSend(j)
         /\ reqs[i].sock = reqs[j].sock
         /\ reqs[i].saved # 0 /\ reqs[j].saved # 0)
        => /\ reqs[i].saved < reqs[j].saved
           /\ \A k \in Sockets :
                 (/\ IndexOf(inbox[k], NewMessageEvent(i)) # 0
                  /\ IndexOf(inbox[k], NewMessageEvent(j)) # 0)
                 => IndexOf(inbox[k], NewMessageEvent(i))
                       < IndexOf(inbox[k], NewMessageEvent(j))

\* C20, as claimed: a send-message with an attachment and a content that
\* trims to nothing is not refused by the validation of the save, in a
\* persistent room and in floating-chat alike, and once it has succeeded the
\* persisted message has an empty content and the attachment.
C20_AttachmentOnlySendSucceeds ==
    \A i \in 1..Len(reqs) :
        (IsSend(i) /\ reqs[i].content = <<>> /\ reqs[i].file)
        => /\ reqs[i].ack \notin {"empty", "invalid"}
           /\ reqs[i].ack = "ok"
                 => LET coll == IF reqs[i].room = FloatingRoom THEN floating ELSE store
                    IN  /\ reqs[i].saved \in DOMAIN coll
                        /\ coll[reqs[i].saved].content = <<>>
                        /\ coll[reqs[i].saved].file

\* C12: when the save of a send-message of user A for a persistent room R
\* succeeds while a socket of another user B of A's school is joined to R,
\* the same step sends B's socket new-message with the persisted id, the
\* persisted message has read = false, and B's unread count for R is one
\* higher than before the step.
C12_RecipientNotified ==
    [][\A i \in 1..Len(reqs) :
          (/\ Waiting(i, "send-message", "save") /\ reqs'[i].saved # 0
           /\ reqs[i].room \in ChatroomIds)
          => LET a == SockUser(reqs[i].sock)
                 id == reqs'[i].saved
             IN  \A k \in InRoom(reqs[i].room) :
                    (SockUser(k) # a /\ schoolCode(SockUser(k)) = schoolCode(a))
                    => /\ Len(inbox'[k]) > Len(inbox[k])
                       /\ inbox'[k][Len(inbox[k]) + 1] = <<"new-message", id>>
                       /\ id \in DOMAIN store' /\ id \notin DOMAIN store
                       /\ store'[id].read = FALSE
                       /\ getUnreadCountForChatroom(store', reqs[i].room,
                              SockUser(k), schoolCode(a))
                            = getUnreadCountForChatroom(store, reqs[i].room,
                                 SockUser(k), schoolCode(a)) + 1
      ]_vars

\* u2 joined R1 and u1 then sent to R1: the socket of u2 holds new-message
\* for the stored, unread message and u2 has one unread message in R1.
C12_Witness ==
    \E i \in 1..Len(reqs) :
        /\ IsSend(i) /\ reqs[i].sock = "k1" /\ reqs[i].room = "R1"
        /\ reqs[i].saved # 0
        /\ "R1" \in rooms["k2"]
        /\ IndexOf(inbox["k2"], NewMessageEvent(i)) # 0
        /\ store[reqs[i].saved].read = FALSE
        /\ getUnreadCountForChatroom(store, "R1", "u2", "S1") = 1

---------------------------------------------------------------------------
(* The specification of the notifications of a send: u1, u2 and u4 of      *)
(* school S1 and u3 of school S2 have connected, in any order, and u2 has  *)
(* joined R1.                                                              *)

NotifySockets == {"k1", "k2", "k3", "k4"}

LongContent == [j \in 1..(PreviewLen + 1) |-> "a"]

InitNotify ==
    /\ store = [id \in {} |-> 0]
    /\ floating = [id \in {} |-> 0]
    /\ nextId = 1
    /\ connected = NotifySockets
    /\ rooms = [k \in Sockets |-> IF k = "k2" THEN {"R1"} ELSE {SchoolRoom(SockUser(k))}]
    /\ connectedClients \in RegistriesOf(NotifySockets)
    /\ onlineUsersBySchool = OnlineOf(NotifySockets)
    /\ now = 0
    /\ DbReady
    /\ rateLimiters = NoRequests
    /\ inbox = [k \in Sockets |-> <<>>]
    /\ reqs = <<>>

NotifyInputs ==
    {<<"k1", "R1">>, <<"k1", FloatingRoom>>, <<"k3", FloatingRoom>>,
     <<"k4", FloatingRoom>>}

NextNotify ==
    \/ \E in \in NotifyInputs :
          Len(reqs) < MaxNotifyReqs /\ SendMessage(in[1], in[2], <<"a">>, FALSE)
    \/ \E i \in 1..Len(reqs) : SaveMessage(i)
    \/ \E i \in 1..Len(reqs) : SaveFails(i)
    \/ \E i \in 1..Len(reqs) : NotifyUnreadCounts(i)
    \/ \E i \in 1..Len(reqs) : NotifyFails(i)

SpecNotify == InitNotify /\ [][NextNotify]_vars

(* The specification of mentions: the same sessions; the messages mention  *)
(* users by a parsed @name or by a mentions array.                         *)

\* <<socket, room, content, whether a mentions array is sent, the array>>
MentionInputs ==
    {<<"k1", "R1", <<"@", "B", "B">>, FALSE, <<>>>>,
     <<"k1", "R1", <<"a">>, TRUE, <<Mention(<<"b">>, <<"b", "2">>)>>>>,
     <<"k1", "R1", LongContent, TRUE, <<Mention(<<"B", "B">>, <<>>)>>>>,
     <<"k2", "R1", <<"a">>, TRUE, <<>>>>,
     <<"k4", FloatingRoom, <<"@", "B", "B">>, FALSE, <<>>>>,
     <<"k2", "R1", <<"@", "U+0627", "U+00E9">>, FALSE, <<>>>>}

NextMention ==
    \/ \E in \in MentionInputs :
          /\ Len(reqs) < MaxMentionReqs
          /\ SendMessageWithMentions(in[1], in[2], in[3], FALSE, in[4], in[5])
    \/ \E i \in 1..Len(reqs) : SaveMessage(i)
    \/ \E i \in 1..Len(reqs) : SaveFails(i)
    \/ \E i \in 1..Len(reqs) : NotifyUnreadCounts(i)
    \/ \E i \in 1..Len(reqs) : NotifyFails(i)

SpecMention == InitNotify /\ [][NextMention]_vars

---------------------------------------------------------------------------
(* Claims about the notifications of a send.                               *)

\* The users with a registered live session in the sender's school, without
\* the sender.
OtherSessionsOfSchool(a) ==
    {c \in Users : /\ c # a /\ schoolCode(c) = schoolCode(a)
                   /\ mapGet(connectedClients, c) \in connected}

EventsNamed(box, kind) == {j \in 1..Len(box) : box[j][1] = kind}

\* C13: the unread-counts loop of a send reaches only other sessions of the
\* sender's school; a send that has returned after a count failed has
\* returned success; when a send has returned success, every such session
\* was either sent its counts or had its count fail, whatever failed before
\* it; and a socket holds as many unread-counts-updated events as there are
\* sends that sent it one, so that the sender and the sessions of other
\* schools hold none.  (The sends that return success are those to
\* floating-chat.)
C13_UnreadFanOut ==
    /\ \A i \in 1..Len(reqs) :
          IsSend(i)
          => LET a == SockUser(reqs[i].sock)
             IN  /\ reqs[i].notified \cup reqs[i].failedFor
                       \subseteq OtherSessionsOfSchool(a)
                 /\ reqs[i].notified \cap reqs[i].failedFor = {}
                 /\ (reqs[i].pc = "done" /\ reqs[i].failedFor # {})
                       => reqs[i].ack = "ok"
                 /\ reqs[i].ack = "ok"
                       => reqs[i].notified
                             = OtherSessionsOfSchool(a) \ reqs[i].failedFor
    /\ \A k \in Sockets :
          Cardinality(EventsNamed(inbox[k], "unread-counts-updated"))
             = Cardinality({i \in 1..Len(reqs) :
                               /\ SockUser(k) \in reqs[i].notified
                               /\ mapGet(connectedClients, SockUser(k)) = k
                               /\ SockUser(k) \in OtherSessionsOfSchool(SockUser(reqs[i].sock))})

\* A send of u1 to floating-chat that returned success although the count
\* of u2, the first client the loop came to, failed: u4 was sent its counts,
\* u2, u3 and u1 were sent none.
C13_Witness ==
    \E i \in 1..Len(reqs) :
        /\ IsSend(i) /\ reqs[i].sock = "k1" /\ reqs[i].ack = "ok"
        /\ reqs[i].failedFor = {"u2"} /\ reqs[i].notified = {"u4"}
        /\ mapIndex(connectedClients, "u2") < mapIndex(connectedClients, "u4")
        /\ Len(reqs) = 1
        /\ EventsNamed(inbox["k4"], "unread-counts-updated") # {}
        /\ \A k \in {"k1", "k2", "k3"} :
              EventsNamed(inbox[k], "unread-counts-updated") = {}

\* The sessions the claim has notified of a mention: the other users of the
\* sender's school whose name or username is, case-insensitively, the name
\* or the username of a mention entry.
ClaimedMentioned(a, mentions) ==
    {k \in connected :
        /\ mapGet(connectedClients, SockUser(k)) = k
        /\ SockUser(k) # a
        /\ schoolCode(SockUser(k)) = schoolCode(a)
        /\ \E j \in 1..Len(mentions) :
              {toLowerCase(name(SockUser(k))), toLowerCase(username(SockUser(k)))}
                 \cap ({toLowerCase(mentions[j].name),
                        toLowerCase(mentions[j].username)} \ {<<>>}) # {}}

\* C14, as claimed: the sockets that hold a user-mentioned event for a
\* persisted message are the sessions of the users its mentions name, and
\* the preview of the event is the first 100 characters of the content.
C14_MentionedNotified ==
    \A i \in 1..Len(reqs) :
        (IsSend(i) /\ reqs[i].saved # 0 /\ reqs[i].room \in ChatroomIds)
        => \A k \in Sockets :
              LET ev == <<"user-mentioned", reqs[i].saved, reqs[i].room,
                          SockUser(reqs[i].sock),
                          substring(reqs[i].content, 100)>>
              IN  /\ k \in ClaimedMentioned(SockUser(reqs[i].sock), reqs[i].mentions)
                        <=> IndexOf(inbox[k], ev) # 0
                  /\ \A j \in EventsNamed(inbox[k], "user-mentioned") :
                        inbox[k][j][2] = reqs[i].saved => inbox[k][j] = ev

---------------------------------------------------------------------------
(* The specification of reactions: two users of one school, joined to R1,  *)
(* and one message of R1 that has no reaction yet.                         *)

ReactSockets == {"k1", "k2"}

InitReact ==
    /\ store = Insert([id \in {} |-> 0], NewMessage(1, "R1", "u1", <<"a">>, FALSE))
    /\ floating = [id \in {} |-> 0]
    /\ nextId = 2
    /\ connected = ReactSockets
    /\ rooms = [k \in Sockets |-> {"R1"}]
    /\ connectedClients = ClientsOf(ReactSockets)
    /\ onlineUsersBySchool = OnlineOf(ReactSockets)
    /\ now = 0
    /\ DbReady
    /\ rateLimiters = NoRequests
    /\ inbox = [k \in Sockets |-> <<>>]
    /\ reqs = <<>>

NextReact ==
    \/ \E k \in ReactSockets, mid \in {1, 2}, emoji \in Emojis :
          Len(reqs) < MaxReactReqs /\ ToggleReaction(k, mid, "R1", emoji)
    \/ \E i \in 1..Len(reqs) : FindForReaction(i)
    \/ \E i \in 1..Len(reqs) : SaveReaction(i)
    \/ \E i \in 1..Len(reqs) : RefetchReaction(i)
    \/ \E i \in 1..Len(reqs) : ToggleFails(i)

SpecReact == InitReact /\ [][NextReact]_vars

---------------------------------------------------------------------------
(* Claims about reactions.                                                 *)

IsToggle(i) == reqs[i].kind = "toggle-reaction"

\* The toggles of message mid that were not refused before reaching storage.
TogglesOf(mid) ==
    {i \in 1..Len(reqs) : IsToggle(i) /\ reqs[i].mid = mid /\ reqs[i].ack # "rateLimited"}

\* Request j was issued after request i had returned successfully.
InSequence(i, j) == i < j /\ i \in reqs[j].prior /\ reqs[i].ack = "ok" /\ reqs[j].ack = "ok"

\* C4, as claimed: on a message that had no reaction, a user's two toggles
\* in sequence, and nothing else, leave the user in no bucket when the
\* emoji is the same, and in the second emoji's bucket only when it differs.
C4_ToggleTwice ==
    \A mid \in DOMAIN store : \A i, j \in TogglesOf(mid) :
        (/\ TogglesOf(mid) = {i, j}
         /\ InSequence(i, j)
         /\ reqs[i].sock = reqs[j].sock)
        => LET u == SockUser(reqs[i].sock)
           IN  IF reqs[i].emoji = reqs[j].emoji
               THEN BucketsOf(store[mid].reactions, u) = {}
               ELSE BucketsOf(store[mid].reactions, u) = {reqs[j].emoji}

\* C5, as claimed: a user is in at most one bucket of a message.
C5_OneReactionPerUser ==
    \A mid \in DOMAIN store : \A u \in Users :
        Cardinality(BucketsOf(store[mid].reactions, u)) <= 1

\* C6, as claimed: once the only two toggles of a message, made by different
\* users, have both completed, the stored reactions are those of the two
\* toggles run one after the other in one of the two orders.
C6_NoLostReaction ==
    \A mid \in DOMAIN store : \A i, j \in TogglesOf(mid) :
        (/\ TogglesOf(mid) = {i, j} /\ i # j
         /\ reqs[i].ack = "ok" /\ reqs[j].ack = "ok"
         /\ reqs[i].sock # reqs[j].sock)
        => LET ui == SockUser(reqs[i].sock)
               uj == SockUser(reqs[j].sock)
           IN  store[mid].reactions \in
                 {toggleReaction(toggleReaction(NoReactions, reqs[i].emoji, ui),
                                 reqs[j].emoji, uj),
                  toggleReaction(toggleReaction(NoReactions, reqs[j].emoji, uj),
                                 reqs[i].emoji, ui)}

---------------------------------------------------------------------------
(* The specification of pinning: room R1 holds four messages, of which two *)
(* or three are pinned (at the times 1, 2 and 3), and room R2 holds one.   *)
(* Socket k1 issues the requests, socket k2 listens in R1; the time is 3   *)
(* and passes.                                                             *)

PinSockets == {"k1"}

PinnedMessage(id, room, at) ==
    [NewMessage(id, room, "u1", <<"a">>, FALSE) EXCEPT
        !.pinned = at > 0, !.pinnedAt = IF at > 0 THEN at ELSE -1,
        !.pinnedBy = IF at > 0 THEN "u2" ELSE ""]

InitPin ==
    /\ \E third \in {0, 3} :
          store = [id \in 1..5 |->
                      CASE id \in {1, 2} -> PinnedMessage(id, "R1", id)
                        [] id = 3 -> PinnedMessage(id, "R1", third)
                        [] id = 4 -> PinnedMessage(id, "R1", 0)
                        [] OTHER -> PinnedMessage(id, "R2", 0)]
    /\ floating = [id \in {} |-> 0]
    /\ nextId = 6
    /\ connected = {"k1", "k2"}
    /\ rooms = [k \in Sockets |-> {"R1"}]
    /\ connectedClients = ClientsOf({"k1", "k2"})
    /\ onlineUsersBySchool = OnlineOf({"k1", "k2"})
    /\ now = 3
    /\ DbReady
    /\ rateLimiters = NoRequests
    /\ inbox = [k \in Sockets |-> <<>>]
    /\ reqs = <<>>

NextPin ==
    \/ \E k \in PinSockets, mid \in {4, 6}, room \in ChatroomIds :
          Len(reqs) < MaxPinReqs /\ PinMessage(k, mid, room)
    \/ \E k \in PinSockets, mid \in {1, 4} :
          Len(reqs) < MaxPinReqs /\ UnpinMessage(k, mid, "R1")
    \/ \E i \in 1..Len(reqs) : CountPinned(i)
    \/ \E i \in 1..Len(reqs) : UpdatePinned(i)
    \/ \E i \in 1..Len(reqs) : ListPinned(i)
    \/ \E i \in 1..Len(reqs) : PinFails(i)
    \/ ClockTick(3 + MaxPinTime)

SpecPin == InitPin /\ [][NextPin]_vars

---------------------------------------------------------------------------
(* Claims about pinning.                                                   *)

PinnedSet(coll) == {id \in DOMAIN coll : coll[id].pinned}

\* C7: when the count of a pin-message request finds 3 (or more) pinned
\* messages in the request's room, the request ends there with the
\* limit-exceeded failure, and the step changes no message.
C7_PinAtLimitRefused ==
    [][\A i \in 1..Len(reqs) :
          (/\ Waiting(i, "pin-message", "count")
           /\ reqs'[i].pc # "count"
           /\ reqs'[i].ack # "error"
           /\ Cardinality(PinnedIn(store, reqs[i].room,
                                   schoolCode(SockUser(reqs[i].sock)))) >= 3)
          => /\ reqs'[i].pc = "done"
             /\ reqs'[i].ack = "limit"
             /\ store' = store
      ]_vars

\* A refused pin of the fourth message of R1, whose three pins are intact.
C7_Witness ==
    \E i \in 1..Len(reqs) :
        /\ reqs[i].kind = "pin-message" /\ reqs[i].ack = "limit"
        /\ reqs[i].room = "R1" /\ reqs[i].mid = 4
        /\ PinnedSet(store) = {1, 2, 3}

\* C8, as claimed: no room ever has more than 3 pinned messages.
C8_AtMostThreePinned ==
    \A room \in ChatroomIds, sc \in Schools :
        Cardinality(PinnedIn(store, room, sc)) <= 3

---------------------------------------------------------------------------
(* The specification of read state: u1 and u2 of school S1 send to, join  *)
(* and mark read the rooms R1 and R2.  One message of u1 is already stored *)
(* in R1, and so is one that u3 of school S2 sent under the same chatroom  *)
(* id.                                                                     *)

ReadSockets == {"k1", "k2"}

InitRead ==
    /\ store = [id \in {1, 2} |->
                   IF id = 1 THEN NewMessage(1, "R1", "u1", <<"a">>, FALSE)
                   ELSE NewMessage(2, "R1", "u3", <<"a">>, FALSE)]
    /\ floating = [id \in {} |-> 0]
    /\ nextId = 3
    /\ connected = ReadSockets
    /\ rooms = [k \in Sockets |-> {SchoolRoom(SockUser(k))}]
    /\ connectedClients = ClientsOf(ReadSockets)
    /\ onlineUsersBySchool = OnlineOf(ReadSockets)
    /\ now = 0
    /\ DbReady
    /\ rateLimiters = NoRequests
    /\ inbox = [k \in Sockets |-> <<>>]
    /\ reqs = <<>>

NextRead ==
    \/ \E in \in {<<"k1", "R1">>, <<"k1", "R2">>, <<"k2", "R1">>} :
          Len(reqs) < MaxReadReqs /\ SendMessage(in[1], in[2], <<"a">>, FALSE)
    \/ \E k \in ReadSockets, room \in {"R1", ""} :
          Len(reqs) < MaxReadReqs /\ MarkMessagesRead(k, room)
    \/ Len(reqs) < MaxReadReqs /\ JoinRoom("k2", "R2")
    \/ \E i \in 1..Len(reqs) : SaveMessage(i)
    \/ \E i \in 1..Len(reqs) : SaveFails(i)
    \/ \E i \in 1..Len(reqs) : GetMessages(i)
    \/ \E i \in 1..Len(reqs) : MarkReadStep(i)
    \/ \E i \in 1..Len(reqs) : MarkReadFails(i)

SpecRead == InitRead /\ [][NextRead]_vars

---------------------------------------------------------------------------
(* Claims about read state.                                                *)

IsMark(i) == reqs[i].kind \in {"join-room", "mark-messages-read"}

\* The messages of room room of user u's school that u did not send.
OthersMessages(coll, room, u) ==
    {id \in DOMAIN coll :
        /\ coll[id].chatroomId = room
        /\ coll[id].schoolCode = schoolCode(u)
        /\ coll[id].sender # u}

\* The claim as it was stated, of every message the room holds when the
\* operation completes: a message stored while the operation ran is among
\* them, and the operation may have passed it by.
C9_MarkReadCoversRoom ==
    [][\A i \in 1..Len(reqs) :
          (/\ IsMark(i) /\ reqs[i].room # FloatingRoom
           /\ reqs[i].pc = "markRead" /\ reqs'[i].ack = "ok")
          => LET u == SockUser(reqs[i].sock)
                 r == reqs[i].room
             IN  /\ \A id \in OthersMessages(store', r, u) :
                        u \in Elems(store'[id].readBy)
                 /\ markMessagesAsRead(store', r, u, schoolCode(u)) = store'
      ]_vars

\* C9: the step in which markMessagesAsRead(r, u) completes leaves u in
\* readBy of every message of r that u did not send and that was stored
\* when the operation began; and when no message has been stored since it
\* began, a second markMessagesAsRead(r, u) on the store it leaves changes
\* no document.
C9_MarkReadIdempotent ==
    [][\A i \in 1..Len(reqs) :
          (/\ IsMark(i) /\ reqs[i].room # FloatingRoom
           /\ reqs[i].pc = "markRead" /\ reqs'[i].ack = "ok")
          => LET u == SockUser(reqs[i].sock)
                 r == reqs[i].room
             IN  /\ \A id \in OthersMessages(store', r, u) \cap reqs'[i].present :
                        u \in Elems(store'[id].readBy)
                 /\ DOMAIN store' \subseteq reqs'[i].present
                       => markMessagesAsRead(store', r, u, schoolCode(u)) = store'
      ]_vars

\* Two completed mark-read requests of u2 for R1, one after the other, with
\* a message of another user in R1 that now has u2 as a reader.
C9_Witness ==
    \E i, j \in 1..Len(reqs) :
        /\ IsMark(i) /\ IsMark(j) /\ InSequence(i, j)
        /\ reqs[i].sock = "k2" /\ reqs[j].sock = "k2"
        /\ reqs[i].room = "R1" /\ reqs[j].room = "R1"
        /\ \E id \in DOMAIN store :
              /\ store[id].chatroomId = "R1"
              /\ store[id].sender = "u1"
              /\ store[id].readBy = <<"u2">>

\* C11: no message, of a persistent room or of the floating room, has its
\* own sender among its readers.
C11_SenderNotInReadBy ==
    /\ \A id \in DOMAIN store : store[id].sender \notin Elems(store[id].readBy)
    /\ \A id \in DOMAIN floating :
          floating[id].sender \notin Elems(floating[id].readBy)

\* u1 and u2 have both marked R1 read: the message u1 sent there has u2 as
\* its only reader.
C11_Witness ==
    /\ \E i \in 1..Len(reqs) :
          IsMark(i) /\ reqs[i].sock = "k1" /\ reqs[i].room = "R1" /\ reqs[i].ack = "ok"
    /\ \E i \in 1..Len(reqs) :
          IsMark(i) /\ reqs[i].sock = "k2" /\ reqs[i].room = "R1" /\ reqs[i].ack = "ok"
    /\ store[1].sender = "u1" /\ store[1].readBy = <<"u2">>

\* The unread count of the claim, counted message by message.
RECURSIVE UnreadUpTo(_, _, _)
UnreadUpTo(n, room, u) ==
    IF n = 0 THEN 0
    ELSE UnreadUpTo(n - 1, room, u)
         + (IF /\ n \in DOMAIN store
               /\ store[n].chatroomId = room
               /\ store[n].schoolCode = schoolCode(u)
               /\ store[n].sender # u
               /\ \A x \in 1..Len(store[n].readBy) : store[n].readBy[x] # u
            THEN 1 ELSE 0)

RefUnread(room, u) == UnreadUpTo(nextId - 1, room, u)

\* C10: in every state reached by interleaved sends and mark-reads, the
\* count of getUnreadCountForChatroom(r, u) is the number of messages of r
\* that u neither sent nor read, and getUnreadCountsByChatroom(u) has a key
\* for exactly the rooms where that number is not zero, mapped to it.
C10_UnreadCountsAgree ==
    \A u \in Users :
        LET byRoom == getUnreadCountsByChatroom(store, u, schoolCode(u))
        IN  /\ \A room \in ChatroomIds :
                  /\ getUnreadCountForChatroom(store, room, u, schoolCode(u))
                        = RefUnread(room, u)
                  /\ room \in DOMAIN byRoom <=> RefUnread(room, u) # 0
                  /\ room \in DOMAIN byRoom => byRoom[room] = RefUnread(room, u)
            /\ DOMAIN byRoom \subseteq ChatroomIds

\* After a mark-read of u2 and a later send of u1: u2 has read the first
\* message of u1 in R1 and not the second, and u1 has nothing unread.
C10_Witness ==
    /\ getUnreadCountForChatroom(store, "R1", "u2", "S1") = 1
    /\ getUnreadCountsByChatroom(store, "u2", "S1") = [r \in {"R1"} |-> 1]
    /\ store[1].readBy = <<"u2">>
    /\ getUnreadCountForChatroom(store, "R1", "u1", "S1") = 0
    /\ Cardinality({id \in DOMAIN store : store[id].sender = "u1"}) = 2

---------------------------------------------------------------------------
(* The specification of editing and deleting: u1 and u2 of school S1 and   *)
(* u3 of school S2 have joined R1, which holds one message, sent by u1.    *)

EditSockets == {"k1", "k2", "k3"}

InitEdit ==
    /\ store = Insert([id \in {} |-> 0], NewMessage(1, "R1", "u1", <<"a">>, FALSE))
    /\ floating = [id \in {} |-> 0]
    /\ nextId = 2
    /\ connected = EditSockets
    /\ rooms = [k \in Sockets |-> {"R1"}]
    /\ connectedClients = ClientsOf(EditSockets)
    /\ onlineUsersBySchool = OnlineOf(EditSockets)
    /\ now = 0
    /\ DbReady
    /\ rateLimiters = NoRequests
    /\ inbox = [k \in Sockets |-> <<>>]
    /\ reqs = <<>>

\* <<socket, message id, new content>>
EditInputs ==
    ({"k1", "k2", "k3"} \X {1} \X {<<" ">>, <<"\t", "b", " ">>})
       \cup {<<"k1", 1, <<>>>>, <<"k1", 2, <<"b">>>>}

DeleteInputs == ({"k1", "k2", "k3"} \X {1}) \cup {<<"k1", 2>>}

NextEdit ==
    \/ \E in \in EditInputs :
          Len(reqs) < MaxEditReqs /\ EditMessage(in[1], in[2], "R1", in[3])
    \/ \E in \in DeleteInputs :
          Len(reqs) < MaxEditReqs /\ DeleteMessage(in[1], in[2], "R1")
    \/ \E i \in 1..Len(reqs) : FindForEdit(i)
    \/ \E i \in 1..Len(reqs) : UpdateEdited(i)
    \/ \E i \in 1..Len(reqs) : EditFails(i)
    \/ \E i \in 1..Len(reqs) : FindForDelete(i)
    \/ \E i \in 1..Len(reqs) : DeleteOne(i)
    \/ \E i \in 1..Len(reqs) : DeleteFails(i)
    \/ ClockTick(MaxEditTime)

SpecEdit == InitEdit /\ [][NextEdit]_vars

---------------------------------------------------------------------------
(* Claims about editing and deleting.                                      *)

\* The step in which request i, which was waiting for its find, returns
\* without a storage operation having rejected.
FindReturns(i, kind) ==
    /\ Waiting(i, kind, "find")
    /\ reqs'[i].pc # "find"
    /\ reqs'[i].ack # "error"

Actor(i) == SockUser(reqs[i].sock)

\* C15: the find of an edit-message for a message of the actor's school
\* returns Unauthorized when the actor is not the sender, and the validation
\* error when the actor is the sender and the new content is blank; an edit
\* with an empty new content is refused by the handler; a refused edit
\* changes no message and sends no event; and content, edited and editedAt
\* of a message change only in the step in which an edit of its sender, with
\* a content that is not blank, succeeds.
C15_EditBySenderOnly ==
    [][/\ \A i \in 1..Len(reqs) :
             (FindReturns(i, "edit-message")
              /\ findOne(store, reqs[i].mid, schoolCode(Actor(i))))
             => /\ store[reqs[i].mid].sender # Actor(i)
                      => reqs'[i].ack = "unauthorized"
                /\ (store[reqs[i].mid].sender = Actor(i)
                       /\ trim(reqs[i].content) = <<>>)
                      => reqs'[i].ack = "empty"
                /\ reqs'[i].ack \in {"unauthorized", "empty"}
                      => store' = store /\ inbox' = inbox
       /\ \A i \in 1..Len(reqs') :
             (reqs'[i].kind = "edit-message" /\ reqs'[i].content = <<>>)
             => reqs'[i].ack = "missing" /\ reqs'[i].pc = "done"
       /\ \A mid \in DOMAIN store \cap DOMAIN store' :
             (\/ store'[mid].content # store[mid].content
              \/ store'[mid].edited # store[mid].edited
              \/ store'[mid].editedAt # store[mid].editedAt)
             => /\ store'[mid].edited
                /\ \E i \in 1..Len(reqs) :
                      /\ Waiting(i, "edit-message", "update")
                      /\ reqs'[i].ack = "ok"
                      /\ reqs[i].mid = mid
                      /\ Actor(i) = store[mid].sender
                      /\ trim(reqs[i].content) # <<>>
                      /\ \E k \in Sockets :
                            inbox'[k] = Append(inbox[k],
                               <<"message-edited", mid, store'[mid].content,
                                 store'[mid].editedAt>>)
      ]_vars

\* u2 was refused the edit of u1's message and u1 was refused a blank
\* content: the message is as it was and no event was sent.
C15_Witness ==
    /\ \E i \in 1..Len(reqs) :
          /\ reqs[i].kind = "edit-message" /\ reqs[i].sock = "k2"
          /\ reqs[i].mid = 1 /\ reqs[i].ack = "unauthorized"
    /\ \E i \in 1..Len(reqs) :
          /\ reqs[i].kind = "edit-message" /\ reqs[i].sock = "k1"
          /\ reqs[i].mid = 1 /\ reqs[i].content = <<" ">> /\ reqs[i].ack = "empty"
    /\ store[1] = NewMessage(1, "R1", "u1", <<"a">>, FALSE)
    /\ \A k \in Sockets : inbox[k] = <<>>

\* C16: the find of a delete-message returns Unauthorized for a message of
\* the actor's school that the actor did not send and NotFound for a message
\* the actor's school does not have, and that step removes no message and
\* sends no event; a message leaves the collection only in the step in
\* which a delete-message of its sender succeeds.
C16_DeleteBySenderOnly ==
    [][/\ \A i \in 1..Len(reqs) :
             FindReturns(i, "delete-message")
             => /\ (findOne(store, reqs[i].mid, schoolCode(Actor(i)))
                       /\ store[reqs[i].mid].sender # Actor(i))
                      => reqs'[i].ack = "unauthorized"
                /\ ~findOne(store, reqs[i].mid, schoolCode(Actor(i)))
                      => reqs'[i].ack = "notFound"
                /\ store' = store /\ inbox' = inbox
       /\ \A mid \in DOMAIN store \ DOMAIN store' :
             \E i \in 1..Len(reqs) :
                /\ Waiting(i, "delete-message", "delete")
                /\ reqs'[i].ack = "ok"
                /\ reqs[i].mid = mid
                /\ Actor(i) = store[mid].sender
       /\ \A i \in 1..Len(reqs) :
             (reqs[i].kind = "delete-message"
              /\ reqs[i].ack = "none" /\ reqs'[i].ack \notin {"none", "ok"})
             => store' = store /\ inbox' = inbox
      ]_vars

\* u2 was refused the deletion of u1's message and u1 was told that message
\* 2 does not exist: message 1 is still stored and no event was sent.
C16_Witness ==
    /\ \E i \in 1..Len(reqs) :
          /\ reqs[i].kind = "delete-message" /\ reqs[i].sock = "k2"
          /\ reqs[i].mid = 1 /\ reqs[i].ack = "unauthorized"
    /\ \E i \in 1..Len(reqs) :
          /\ reqs[i].kind = "delete-message" /\ reqs[i].sock = "k1"
          /\ reqs[i].mid = 2 /\ reqs[i].ack = "notFound"
    /\ 1 \in DOMAIN store
    /\ \A k \in Sockets : inbox[k] = <<>>

---------------------------------------------------------------------------
(* The specification of deleting in the floating room: u1, u2 (an admin)   *)
(* and u4 of school S1 have joined floating-chat, which holds a message of *)
(* u1 and a message of u2.                                                 *)

FloatSockets == {"k1", "k2", "k4"}

InitFloat ==
    /\ store = [id \in {} |-> 0]
    /\ floating = [id \in {1, 2} |->
                      IF id = 1 THEN NewFloatingMessage(1, "u1", <<"a">>, FALSE)
                      ELSE NewFloatingMessage(2, "u2", <<"a">>, FALSE)]
    /\ nextId = 3
    /\ connected = FloatSockets
    /\ rooms = [k \in Sockets |-> {FloatingRoom}]
    /\ connectedClients = ClientsOf(FloatSockets)
    /\ onlineUsersBySchool = OnlineOf(FloatSockets)
    /\ now = 0
    /\ DbReady
    /\ rateLimiters = NoRequests
    /\ inbox = [k \in Sockets |-> <<>>]
    /\ reqs = <<>>

NextFloat ==
    \/ \E k \in FloatSockets, mid \in {1, 2, 3} :
          Len(reqs) < MaxFloatReqs /\ DeleteFloatingMessage(k, mid)
    \/ \E i \in 1..Len(reqs) : FindForDelete(i)
    \/ \E i \in 1..Len(reqs) : DeleteOne(i)
    \/ \E i \in 1..Len(reqs) : DeleteFails(i)

SpecFloat == InitFloat /\ [][NextFloat]_vars

\* C17, as claimed: a floating message leaves the collection only in the
\* step in which a delete-floating-message of its sender or of an admin
\* succeeds; such a request is not refused as unauthorized, and the request
\* of any other actor is, removing nothing.
C17_FloatingDeleteBySenderOrAdmin ==
    [][/\ \A mid \in DOMAIN floating \ DOMAIN floating' :
             \E i \in 1..Len(reqs) :
                /\ Waiting(i, "delete-floating-message", "delete")
                /\ reqs[i].mid = mid
                /\ Actor(i) = floating[mid].sender \/ role(Actor(i)) = "admin"
       /\ \A i \in 1..Len(reqs) :
             (FindReturns(i, "delete-floating-message")
              /\ findOne(floating, reqs[i].mid, schoolCode(Actor(i))))
             => IF \/ Actor(i) = floating[reqs[i].mid].sender
                   \/ role(Actor(i)) = "admin"
                THEN reqs'[i].ack # "unauthorized"
                ELSE reqs'[i].ack = "unauthorized" /\ floating' = floating
      ]_vars

---------------------------------------------------------------------------
(* The specification of failing requests: u1 and u2 of school S1 have      *)
(* joined R1, which holds one message, sent by u1; u2 has used up its      *)
(* messages of the window.  Every kind of mutation is requested, and every *)
(* storage operation may reject.                                           *)

FailureSockets == {"k1", "k2"}

InitialStore == Insert([id \in {} |-> 0], NewMessage(1, "R1", "u1", <<"a">>, FALSE))

InitFailure ==
    /\ store = InitialStore
    /\ floating = [id \in {} |-> 0]
    /\ nextId = 2
    /\ connected = FailureSockets
    /\ rooms = [k \in Sockets |-> {"R1"}]
    /\ connectedClients = ClientsOf(FailureSockets)
    /\ onlineUsersBySchool = OnlineOf(FailureSockets)
    /\ now = 0
    /\ DbReady
    /\ rateLimiters = [NoRequests EXCEPT !["messages"]["u2"] = Counted(MessagesPerWindow)]
    /\ inbox = [k \in Sockets |-> <<>>]
    /\ reqs = <<>>

NextFailure ==
    \/ \E in \in {<<"k1", <<" ">>>>, <<"k1", <<"a">>>>, <<"k2", <<"a">>>>} :
          Len(reqs) < MaxFailureReqs /\ SendMessage(in[1], "R1", in[2], FALSE)
    \/ \E mid \in {1, 2} :
          Len(reqs) < MaxFailureReqs /\ ToggleReaction("k1", mid, "R1", "e1")
    \/ Len(reqs) < MaxFailureReqs /\ PinMessage("k1", 1, "R1")
    \/ Len(reqs) < MaxFailureReqs /\ UnpinMessage("k1", 2, "R1")
    \/ \E k \in FailureSockets :
          Len(reqs) < MaxFailureReqs /\ EditMessage(k, 1, "R1", <<"b">>)
    \/ \E k \in FailureSockets :
          Len(reqs) < MaxFailureReqs /\ DeleteMessage(k, 1, "R1")
    \/ \E i \in 1..Len(reqs) : SaveMessage(i)
    \/ \E i \in 1..Len(reqs) : SaveFails(i)
    \/ \E i \in 1..Len(reqs) : FindForReaction(i)
    \/ \E i \in 1..Len(reqs) : SaveReaction(i)
    \/ \E i \in 1..Len(reqs) : RefetchReaction(i)
    \/ \E i \in 1..Len(reqs) : ToggleFails(i)
    \/ \E i \in 1..Len(reqs) : CountPinned(i)
    \/ \E i \in 1..Len(reqs) : UpdatePinned(i)
    \/ \E i \in 1..Len(reqs) : ListPinned(i)
    \/ \E i \in 1..Len(reqs) : PinFails(i)
    \/ \E i \in 1..Len(reqs) : FindForEdit(i)
    \/ \E i \in 1..Len(reqs) : UpdateEdited(i)
    \/ \E i \in 1..Len(reqs) : EditFails(i)
    \/ \E i \in 1..Len(reqs) : FindForDelete(i)
    \/ \E i \in 1..Len(reqs) : DeleteOne(i)
    \/ \E i \in 1..Len(reqs) : DeleteFails(i)

SpecFailure == InitFailure /\ [][NextFailure]_vars

---------------------------------------------------------------------------
(* Claims about failing requests.                                          *)

Mutations ==
    {"edit-message", "delete-message", "toggle-reaction", "pin-message",
     "unpin-message"}

Refused(i) == reqs[i].pc = "done" /\ reqs[i].ack # "ok"

\* C18, as claimed: as long as every request made was a mutation that was
\* acknowledged with success: false, the stored messages are those of the
\* initial state.
C18_FailureLeavesStoreUnchanged ==
    (\A i \in 1..Len(reqs) : reqs[i].kind \in Mutations /\ Refused(i))
    => store = InitialStore

\* C19, as claimed: the step in which a request is acknowledged with
\* success: false sends no event to any socket, and the request has sent
\* none before: it is not a send whose message was saved and broadcast.
C19_FailureEmitsNothing ==
    [][\A i \in 1..Len(reqs') :
          (/\ reqs'[i].ack \notin {"none", "ok"}
           /\ i <= Len(reqs) => reqs[i].ack = "none")
          => /\ inbox' = inbox
             /\ reqs'[i].saved = 0
             /\ reqs'[i].notified = {}
      ]_vars

---------------------------------------------------------------------------
(* The specification of room membership: u1 and u2 are connected and u2's  *)
(* join-room for R1 has returned; u2 joins rooms while u1 sends to them.   *)

RoomSockets == {"k1", "k2"}

InitRooms ==
    /\ store = [id \in {} |-> 0]
    /\ floating = [id \in {} |-> 0]
    /\ nextId = 1
    /\ connected = RoomSockets
    /\ rooms = [k \in Sockets |->
                   IF k = "k2" THEN {"R1"}
                   ELSE IF k \in RoomSockets THEN {SchoolRoom(SockUser(k))}
                   ELSE {}]
    /\ connectedClients = ClientsOf(RoomSockets)
    /\ onlineUsersBySchool = OnlineOf(RoomSockets)
    /\ now = 0
    /\ DbReady
    /\ rateLimiters = NoRequests
    /\ inbox = [k \in Sockets |-> <<>>]
    /\ reqs = <<[kind |-> "join-room", sock |-> "k2", room |-> "R1", mid |-> 0,
                 emoji |-> "", content |-> <<>>, file |-> FALSE, pc |-> "done",
                 ack |-> "ok", delta |-> NoDelta, saved |-> 0, mentions |-> <<>>,
                 notified |-> {}, failedFor |-> {}, token |-> NoToken,
                 resetIn |-> -1, count |-> -1,
                 counts |-> NoCounts, timestamp |-> 0, before |-> -1,
                 limit |-> 0, messages |-> <<>>, hasMore |-> FALSE,
                 nextCursor |-> -1, user |-> "", found |-> FALSE, chatrooms |-> {},
                 sweeping |-> FALSE, present |-> {}, modified |-> {},
                 cursor |-> 0, target |-> NoSocket, at |-> -1,
                 prior |-> {}]>>

NextRooms ==
    \/ \E room \in ChatroomIds :
          Len(reqs) <= MaxRoomReqs /\ JoinRoom("k2", room)
    \/ \E i \in 1..Len(reqs) : GetMessages(i)
    \/ \E room \in ChatroomIds :
          Len(reqs) <= MaxRoomReqs /\ SendMessage("k1", room, <<"a">>, FALSE)
    \/ \E i \in 1..Len(reqs) : MarkReadStep(i)
    \/ \E i \in 1..Len(reqs) : MarkReadFails(i)
    \/ \E i \in 1..Len(reqs) : SaveMessage(i)

SpecRooms == InitRooms /\ [][NextRooms]_vars

---------------------------------------------------------------------------
(* Claims about room membership.                                           *)

ChatRooms == ChatroomIds \cup {FloatingRoom}

JoinsOf(k) == {i \in 1..Len(reqs) : reqs[i].kind = "join-room" /\ reqs[i].sock = k}

\* The room of the most recent join-room request of socket k.
LastJoined(k) ==
    reqs[CHOOSE i \in JoinsOf(k) : \A j \in JoinsOf(k) : j <= i].room

MessageRoom(coll, id) ==
    IF id \in DOMAIN coll THEN coll[id].chatroomId ELSE FloatingRoom

\* C22: a socket is in at most one chat room at any time; and whenever a
\* socket is sent new-message, the socket has made a join-room request, the
\* message belongs to the room of its most recent one, and the socket had
\* not been sent that message before.
C22_OneRoomAtATime ==
    /\ [](\A k \in Sockets : Cardinality(rooms[k] \cap ChatRooms) <= 1)
    /\ [][\A k \in Sockets :
            (inbox'[k] # inbox[k] /\ inbox'[k][Len(inbox'[k])][1] = "new-message")
            => LET ev == inbox'[k][Len(inbox'[k])]
               IN  /\ JoinsOf(k) # {}
                   /\ MessageRoom(store', ev[2]) = LastJoined(k)
                   /\ ev \notin Elems(inbox[k])
        ]_vars

\* u2 joined R1 and then R2; a message sent to R2 after that reached its
\* socket, and a message saved in R1 after that did not.
C22_Witness ==
    \E i, j \in JoinsOf("k2") :
        /\ i < j /\ reqs[i].room = "R1" /\ reqs[j].room = "R2"
        /\ \E a, b \in 1..Len(reqs) :
              /\ a > j /\ b > j
              /\ IsSend(a) /\ reqs[a].room = "R2" /\ reqs[a].saved # 0
              /\ IsSend(b) /\ reqs[b].room = "R1" /\ reqs[b].saved # 0
              /\ NewMessageEvent(a) \in Elems(inbox["k2"])
              /\ NewMessageEvent(b) \notin Elems(inbox["k2"])

---------------------------------------------------------------------------
(* The specification of admission control: u1 has made some of the send-   *)
(* message requests of a window that started at time 0; it sends further   *)
(* messages while the clock advances and the cleanup timer runs.           *)

LimiterSockets == {"k1", "k2"}

InitLimiter ==
    /\ store = [id \in {} |-> 0]
    /\ floating = [id \in {} |-> 0]
    /\ nextId = 1
    /\ connected = LimiterSockets
    /\ rooms = [k \in Sockets |->
                   IF k = "k2" THEN {"R1"}
                   ELSE IF k \in LimiterSockets THEN {SchoolRoom(SockUser(k))}
                   ELSE {}]
    /\ connectedClients = ClientsOf(LimiterSockets)
    /\ onlineUsersBySchool = OnlineOf(LimiterSockets)
    /\ now = 0
    /\ DbReady
    /\ rateLimiters \in
          {[NoRequests EXCEPT !["messages"]["u1"] = e] :
              e \in {NoLimit, Counted(1), Counted(MessagesPerWindow - 1),
                     Counted(MessagesPerWindow)}}
    /\ inbox = [k \in Sockets |-> <<>>]
    /\ reqs = <<>>

\* The instants at which the clock is read next: around the end of a window.
Instants ==
    {t \in UNION {{e.resetTime - 1, e.resetTime, e.resetTime + 1} :
                     e \in {rateLimiters["messages"][u] : u \in Users} \ {NoLimit}} :
        t > now /\ t <= MaxWindows * (WindowMs + 1)}

Tick ==
    /\ \E t \in Instants : now' = t
    /\ UNCHANGED <<store, floating, nextId, connected, rooms, connectedClients,
                   onlineUsersBySchool, rateLimiters, inbox, reqs, dbVars>>

NextLimiter ==
    \/ \E content \in {<<" ">>, <<"a">>} :
          Len(reqs) < MaxLimiterReqs /\ SendMessage("k1", "R1", content, FALSE)
    \/ \E i \in 1..Len(reqs) : SaveMessage(i)
    \/ Tick
    \/ Cleanup

SpecLimiter == InitLimiter /\ [][NextLimiter]_vars

---------------------------------------------------------------------------
(* Claims about admission control.                                         *)

\* C23: a send-message that the messages limiter denies is finished at once
\* with the rate-limit acknowledgement, which carries the limiter's resetIn;
\* the step persists nothing and sends no event, and the request never
\* saves a message.
C23_DeniedSendHasNoEffect ==
    /\ [](\A i \in 1..Len(reqs) :
            (IsSend(i) /\ reqs[i].resetIn # -1)
            => /\ reqs[i].pc = "done" /\ reqs[i].ack = "rateLimited"
               /\ reqs[i].saved = 0)
    /\ [][\A u \in Users :
            (Len(reqs') = Len(reqs) + 1 /\ IsSend(Len(reqs))'
               /\ SockUser(reqs'[Len(reqs')].sock) = u
               /\ ~checkAllowed("messages", u))
            => /\ reqs'[Len(reqs')].ack = "rateLimited"
               /\ reqs'[Len(reqs')].resetIn = rateLimiters["messages"][u].resetTime - now
               /\ store' = store /\ floating' = floating /\ inbox' = inbox
        ]_vars

\* u1 was denied a non-empty message for R1 while u2's socket is joined to
\* R1, and an earlier message of u1 was saved and delivered to u2.
C23_Witness ==
    \E i, j \in 1..Len(reqs) :
        /\ IsSend(i) /\ reqs[i].ack = "rateLimited" /\ reqs[i].content # <<>>
        /\ reqs[i].resetIn > 0
        /\ IsSend(j) /\ j < i /\ reqs[j].saved # 0
        /\ NewMessageEvent(j) \in Elems(inbox["k2"])
        /\ DOMAIN store = {reqs[j].saved}

\* C24: for the messages limiter (ceiling N) and every user, a check made
\* while the user has no entry or after the entry's window has expired is
\* allowed and starts a window at the time of the check; a check inside the
\* window is allowed while fewer than N checks were counted in it, and is
\* otherwise denied with resetIn > 0.
C24_WindowedCeiling ==
    [][\A u \in Users :
          (Len(reqs') = Len(reqs) + 1 /\ SockUser(reqs'[Len(reqs')].sock) = u)
          => LET e == rateLimiters["messages"][u]
                 r == reqs'[Len(reqs')]
             IN  IF e = NoLimit \/ windowExpired(e, now)
                 THEN /\ r.ack # "rateLimited"
                      /\ rateLimiters'["messages"][u] = [count |-> 1, resetTime |-> now + WindowMs]
                 ELSE IF e.count < MessagesPerWindow
                 THEN /\ r.ack # "rateLimited"
                      /\ rateLimiters'["messages"][u] = [e EXCEPT !.count = @ + 1]
                 ELSE /\ r.ack = "rateLimited"
                      /\ r.resetIn > 0
                      /\ rateLimiters' = rateLimiters
      ]_vars

---------------------------------------------------------------------------
(* The specification of the tenant connections: connectToDatabase is       *)
(* called for the three domains; mongoose.createConnection may throw.      *)

InitTenant ==
    /\ store = [id \in {} |-> 0]
    /\ floating = [id \in {} |-> 0]
    /\ nextId = 1
    /\ connected = {}
    /\ rooms = [k \in Sockets |-> {}]
    /\ connectedClients = ClientsOf({})
    /\ onlineUsersBySchool = OnlineOf({})
    /\ now = 0
    /\ DbIdle
    /\ rateLimiters = NoRequests
    /\ inbox = [k \in Sockets |-> <<>>]
    /\ reqs = <<>>

NextTenant ==
    \/ \E domain \in Domains, throws \in BOOLEAN :
          Len(calls) < MaxTenantCalls /\ ConnectToDatabase(domain, throws)
    \/ \E c \in 1..Len(calls), throws \in BOOLEAN : Retry(c, throws, FALSE)
    \/ RetryTimer

SpecTenant == InitTenant /\ [][NextTenant]_vars

(* The specification of reconnection: connectToDatabase is called for the  *)
(* configured domain while its connections open, fail, break and recover.  *)

NextReconnect ==
    \/ Len(calls) < MaxReconnectCalls /\ ConnectToDatabase("d1", FALSE)
    \/ \E n \in 1..Len(connections) : Opened(n)
    \/ \E n \in 1..Len(connections) : ErrorEvent(n)
    \/ \E n \in 1..Len(connections) : DisconnectedEvent(n)
    \/ \E n \in 1..Len(connections) : ReconnectedEvent(n)

SpecReconnect == InitTenant /\ [][NextReconnect]_vars

---------------------------------------------------------------------------
(* Claims about the tenant connections.                                    *)

\* database.json registers no connection string for domain d.
Unconfigured(d) ==
    \/ d \notin DOMAIN databaseConfig
    \/ databaseConfig[d].connectionString = ""

CallsOf(d) == {c \in 1..Len(calls) : calls[c].domain = d}

\* The number of mongoose.createConnection calls a call has made.
Attempts(c) == calls[c].thrown + (IF calls[c].created # 0 THEN 1 ELSE 0)

\* C25: for a domain without a registered connection string, every
\* connectToDatabase call is finished at once with the configuration error
\* and without a connection attempt; no connection is ever created for the
\* domain and the cache never gets an entry for it.
C25_UnconfiguredTenantRefused ==
    \A d \in Domains :
        Unconfigured(d)
        => /\ connectionCache[d] = NoEntry
           /\ \A n \in 1..Len(connections) : connections[n].domain # d
           /\ \A c \in CallsOf(d) :
                 /\ calls[c].pc = "done" /\ calls[c].result = "configError"
                 /\ Attempts(c) = 0

\* A call for the domain whose entry has an empty connection string was
\* refused while the configured domain has a cached connection.
C25_Witness ==
    /\ \E c \in CallsOf("d3") : calls[c].result = "configError"
    /\ connectionCache["d1"].isConnected

\* C26: a connectToDatabase call whose first two connection attempts threw
\* and which has returned, has returned the connection that its third
\* attempt created, not an error; and the step in which it returns leaves
\* the domain's cache entry holding that connection, marked connected.
C26_ThirdAttemptSucceeds ==
    /\ [](\A c \in 1..Len(calls) :
            (calls[c].pc = "done" /\ calls[c].thrown = 2)
            => /\ calls[c].result = "handle"
               /\ calls[c].handle = calls[c].created
               /\ calls[c].handle \in 1..Len(connections)
               /\ connections[calls[c].handle].domain = calls[c].domain)
    /\ [][\A c \in 1..Len(calls) :
            (calls[c].pc = "retryWait" /\ calls'[c].pc = "done" /\ calls'[c].thrown = 2)
            => connectionCache'[calls[c].domain] =
                  [connection |-> calls'[c].handle, isConnected |-> TRUE]
        ]_vars

\* A call returned a connection after two attempts that threw, ten seconds
\* after it was made.
C26_Witness ==
    \E c \in 1..Len(calls) :
        /\ calls[c].pc = "done" /\ calls[c].thrown = 2 /\ calls[c].result = "handle"
        /\ now >= 2 * RETRY_DELAY

\* C27: a connectToDatabase call makes at most MAX_RETRIES connection
\* attempts, and a call that was rejected with the connection error has
\* made exactly MAX_RETRIES attempts.
C27_AtMostMaxRetriesAttempts ==
    \A c \in 1..Len(calls) :
        /\ Attempts(c) <= MAX_RETRIES
        /\ calls[c].result = "connectError" => Attempts(c) = MAX_RETRIES

\* C28: for every domain, at most one connectToDatabase call is inside its
\* retry cycle at any time.
C28_OneAttemptPerTenant ==
    \A d \in Domains :
        Cardinality({c \in CallsOf(d) : calls[c].pc = "retryWait"}) <= 1

\* C29: the step in which the cached connection of a domain fails or is
\* disconnected marks the domain's entry not connected; a connectToDatabase
\* call made while the entry is not marked connected creates a connection,
\* caches it as connected and returns it; a call made while the entry is
\* marked connected returns the cached connection and creates none.
C29_ReconnectAfterDisruption ==
    [][/\ \A n \in 1..Len(connections) :
            (/\ connections'[n].readyState \in {"failed", "disconnected"}
             /\ connections[n].readyState \notin {"failed", "disconnected"}
             /\ connectionCache[connections[n].domain].connection = n)
            => ~connectionCache'[connections[n].domain].isConnected
       /\ Len(calls') = Len(calls) + 1
            => LET call == calls'[Len(calls')]
                   d == call.domain
               IN  IF connectionCache[d].isConnected
                   THEN /\ call.pc = "done" /\ call.result = "handle"
                        /\ call.handle = connectionCache[d].connection
                        /\ connections' = connections
                        /\ connectionCache' = connectionCache
                   ELSE /\ call.pc = "done" /\ call.result = "handle"
                        /\ call.handle = Len(connections) + 1
                        /\ Len(connections') = Len(connections) + 1
                        /\ connections'[call.handle].domain = d
                        /\ connectionCache'[d] =
                              [connection |-> call.handle, isConnected |-> TRUE]
      ]_vars

\* The first call created connection 1, which was disconnected; the second
\* call created connection 2; the third call returned the cached
\* connection 2.
C29_Witness ==
    /\ Len(calls) >= 3
    /\ calls[1].created = 1 /\ connections[1].readyState = "disconnected"
    /\ calls[2].created = 2 /\ calls[2].handle = 2
    /\ calls[3].created = 0 /\ calls[3].handle = 2
    /\ connectionCache["d1"] = [connection |-> 2, isConnected |-> TRUE]

\* C39: a step in which a connection that is not the one stored in its
\* domain's cache entry fails, is disconnected or reconnects leaves the
\* entry as it was.
C39_ReplacedConnectionIgnored ==
    [][\A n \in 1..Len(connections) :
          (/\ Len(connections') = Len(connections)
           /\ connections'[n].readyState # connections[n].readyState
           /\ connectionCache[connections[n].domain].connection # n)
          => connectionCache'[connections[n].domain] =
                connectionCache[connections[n].domain]
      ]_vars

---------------------------------------------------------------------------
(* The specification of presence: sockets connect with or without a valid  *)
(* token, join a room and disconnect.                                      *)

PresenceSockets == {"k1", "k2", "k3", "k4"}

InitPresence ==
    /\ store = [id \in {} |-> 0]
    /\ floating = [id \in {} |-> 0]
    /\ nextId = 1
    /\ connected = {}
    /\ rooms = [k \in Sockets |-> {}]
    /\ connectedClients = ClientsOf({})
    /\ onlineUsersBySchool = OnlineOf({})
    /\ now = 0
    /\ DbIdle
    /\ rateLimiters = NoRequests
    /\ inbox = [k \in Sockets |-> <<>>]
    /\ reqs = <<>>

\* The tokens presented: the clients of k1 and k2 hold their login token,
\* the client of k4 a forged one, the client of k3 its login token or none.
PresenceTokens(k) ==
    CASE k \in {"k1", "k2"} -> {t \in TokensOf(k) : t.key = JWT_SECRET}
      [] k = "k4" -> {t \in TokensOf(k) : t.key = "other"}
      [] OTHER -> {t \in TokensOf(k) : t.key # "other"}

NextPresence ==
    \/ \E k \in PresenceSockets, throws \in Throws(MaxPresenceThrows) :
          \E token \in PresenceTokens(k) : Handshake(k, token, throws)
    \/ \E i \in 1..Len(reqs) : Connection(i)
    \/ \E c \in 1..Len(calls), throws \in Throws(MaxPresenceThrows) :
          Retry(c, throws, FALSE)
    \/ RetryTimer
    \/ \E k \in {"k1"} : Disconnect(k)
    \/ \E k \in {"k2", "k4"} :
          Issued("join-room") < MaxPresenceReqs /\ JoinRoom(k, "R1")
    \/ \E i \in 1..Len(reqs) : GetMessages(i)
    \/ \E i \in 1..Len(reqs) : MarkReadStep(i)
    \/ \E i \in 1..Len(reqs) : MarkReadFails(i)

SpecPresence == InitPresence /\ [][NextPresence]_vars

---------------------------------------------------------------------------
(* Claims about presence and authentication.                               *)

SameSchool(k, u) == schoolCode(SockUser(k)) = schoolCode(u)

\* C21: the step that lets a user's connection through appends user-online
\* to every other open socket of the user's school, and the step that
\* disconnects a socket appends user-offline to every other open socket of
\* that school, whatever rooms those sockets have joined; the disconnect
\* also removes the user from connectedClients and from the online set.
C21_PresenceReachesTenant ==
    [][/\ \A i \in 1..Len(reqs') :
            (/\ reqs'[i].kind = "connect" /\ reqs'[i].ack = "ok"
             /\ i \in 1..Len(reqs) => reqs[i].ack # "ok")
            => \A k \in connected \ {reqs'[i].sock} :
                  SameSchool(k, SockUser(reqs'[i].sock))
                  => inbox'[k] = Append(inbox[k], <<"user-online", SockUser(reqs'[i].sock)>>)
       /\ \A d \in connected \ connected' :
            /\ mapGet(connectedClients', SockUser(d)) = NoSocket
            /\ SockUser(d) \notin onlineUsersBySchool'[schoolCode(SockUser(d))]
            /\ \A k \in connected' :
                  SameSchool(k, SockUser(d))
                  => inbox'[k] = Append(inbox[k], <<"user-offline", SockUser(d)>>)
      ]_vars

ConnectReqs == {i \in 1..Len(reqs) : reqs[i].kind = "connect"}

\* C30: a socket whose connection presented no token, or a token that was
\* not signed with the server's secret, is never let through: it is not an
\* open socket, it is not in connectedClients, its user is not in the online
\* set, no socket was sent user-online for its user, it has joined no room
\* and no handler has run for it.
C30_UnauthenticatedRefused ==
    \A i \in ConnectReqs :
        (reqs[i].token = NoToken \/ reqs[i].token.key # JWT_SECRET)
        => LET k == reqs[i].sock
               u == SockUser(k)
           IN  /\ reqs[i].ack # "ok"
               /\ k \notin connected
               /\ \A v \in Users : mapGet(connectedClients, v) # k
               /\ u \notin onlineUsersBySchool[schoolCode(u)]
               /\ \A k2 \in Sockets : <<"user-online", u>> \notin Elems(inbox[k2])
               /\ rooms[k] = {}
               /\ \A j \in 1..Len(reqs) : reqs[j].sock = k => j = i

\* One connection was refused for its missing token and one for its forged
\* token, while a socket of the same school is open and has been told of
\* another user's connection.
C30_Witness ==
    /\ \E i \in ConnectReqs :
          reqs[i].token = NoToken /\ reqs[i].ack = "Authentication required"
    /\ \E i \in ConnectReqs :
          /\ reqs[i].token.key = "other" /\ reqs[i].ack = "Invalid token"
          /\ \E k \in connected :
                /\ SameSchool(k, SockUser(reqs[i].sock))
                /\ \E v \in Users \ {SockUser(k)} : <<"user-online", v>> \in Elems(inbox[k])

---------------------------------------------------------------------------
(* The specification of sessions: u1 connects from two sockets, u2 from    *)
(* one; the sockets disconnect in any order.                               *)

SessionSockets == {"k1", "k2", "k5"}

NextSessions ==
    \/ \E k \in SessionSockets, throws \in Throws(MaxSessionThrows) :
          Handshake(k, [userId |-> SockUser(k), key |-> JWT_SECRET], throws)
    \/ \E i \in 1..Len(reqs) : Connection(i)
    \/ \E c \in 1..Len(calls), throws \in Throws(MaxSessionThrows) :
          Retry(c, throws, FALSE)
    \/ RetryTimer
    \/ \E k \in SessionSockets : Disconnect(k)

SpecSessions == InitPresence /\ [][NextSessions]_vars

\* C37: a user id is registered in connectedClients, and is in its school's
\* online set, exactly when one of the user's sockets is open, and the
\* registered socket is an open one.
C37_RegistryMatchesOpenSockets ==
    \A u \in Users :
        LET open == {k \in connected : SockUser(k) = u}
        IN  /\ mapGet(connectedClients, u) # NoSocket <=> open # {}
            /\ u \in onlineUsersBySchool[schoolCode(u)] <=> open # {}
            /\ mapGet(connectedClients, u) # NoSocket => mapGet(connectedClients, u) \in open

---------------------------------------------------------------------------
(* The specification of tenant isolation of new-message: u1 of school S1   *)
(* and u3 of school S2 are connected, join rooms, and u1 sends.            *)

IsolationSockets == {"k1", "k3"}

InitIsolation ==
    /\ store = [id \in {} |-> 0]
    /\ floating = [id \in {} |-> 0]
    /\ nextId = 1
    /\ connected = IsolationSockets
    /\ rooms = [k \in Sockets |->
                   IF k \in IsolationSockets THEN {SchoolRoom(SockUser(k))}
                   ELSE {}]
    /\ connectedClients = ClientsOf(IsolationSockets)
    /\ onlineUsersBySchool = OnlineOf(IsolationSockets)
    /\ now = 0
    /\ DbReady
    /\ rateLimiters = NoRequests
    /\ inbox = [k \in Sockets |-> <<>>]
    /\ reqs = <<>>

NextIsolation ==
    \/ \E k \in IsolationSockets, room \in {"R1", FloatingRoom} :
          Len(reqs) < MaxRoomReqs /\ JoinRoom(k, room)
    \/ \E i \in 1..Len(reqs) : GetMessages(i)
    \/ \E room \in {"R1", FloatingRoom} :
          Len(reqs) < MaxRoomReqs /\ SendMessage("k1", room, <<"a">>, FALSE)
    \/ \E room \in {"R1", ""} :
          Len(reqs) < MaxRoomReqs /\ TypingStart("k1", room)
    \/ \E room \in {"R1", ""} :
          Len(reqs) < MaxRoomReqs /\ TypingStop("k1", room)
    \/ \E i \in 1..Len(reqs) : MarkReadStep(i)
    \/ \E i \in 1..Len(reqs) : MarkReadFails(i)
    \/ \E i \in 1..Len(reqs) : SaveMessage(i)

SpecIsolation == InitIsolation /\ [][NextIsolation]_vars

\* The school of the message with this id, persistent or floating.
MessageSchool(id) ==
    IF id \in DOMAIN store THEN store[id].schoolCode ELSE floating[id].schoolCode

\* C38: every new-message event in a socket's inbox is for a message of the
\* school the socket's user belongs to, for the persistent rooms and for
\* floating-chat.
C38_NewMessageStaysInTenant ==
    \A k \in Sockets : \A n \in 1..Len(inbox[k]) :
        inbox[k][n][1] = "new-message"
            => MessageSchool(inbox[k][n][2]) = schoolCode(SockUser(k))

---------------------------------------------------------------------------
(* The specification of mutations across rooms and schools: R1 holds       *)
(* message 1, sent by u1 of school S1.  u1 and u3 (of school S2) have      *)
(* joined R1, u2 has joined R2.  u1 and u3 edit, delete, react to, pin and *)
(* unpin message 1; u1 names R1 or R2 in the request.                      *)

MutateSockets == {"k1", "k2", "k3"}

InitMutate ==
    /\ store = Insert([id \in {} |-> 0], NewMessage(1, "R1", "u1", <<"a">>, FALSE))
    /\ floating = [id \in {} |-> 0]
    /\ nextId = 2
    /\ connected = MutateSockets
    /\ rooms = [k \in Sockets |->
                   IF k \in {"k1", "k3"} THEN {"R1"}
                   ELSE IF k = "k2" THEN {"R2"} ELSE {}]
    /\ connectedClients = ClientsOf(MutateSockets)
    /\ onlineUsersBySchool = OnlineOf(MutateSockets)
    /\ now = 0
    /\ DbReady
    /\ rateLimiters = NoRequests
    /\ inbox = [k \in Sockets |-> <<>>]
    /\ reqs = <<>>

\* <<socket, chatroomId of the request>>
MutateInputs == {<<"k1", "R1">>, <<"k1", "R2">>, <<"k3", "R1">>}

NextMutate ==
    \/ \E in \in MutateInputs :
          Len(reqs) < MaxMutateReqs /\ EditMessage(in[1], 1, in[2], <<"b">>)
    \/ \E in \in MutateInputs :
          Len(reqs) < MaxMutateReqs /\ DeleteMessage(in[1], 1, in[2])
    \/ \E in \in MutateInputs :
          Len(reqs) < MaxMutateReqs /\ ToggleReaction(in[1], 1, in[2], "e1")
    \/ \E in \in MutateInputs :
          Len(reqs) < MaxMutateReqs /\ PinMessage(in[1], 1, in[2])
    \/ \E in \in MutateInputs :
          Len(reqs) < MaxMutateReqs /\ UnpinMessage(in[1], 1, in[2])
    \/ \E i \in 1..Len(reqs) : FindForEdit(i)
    \/ \E i \in 1..Len(reqs) : UpdateEdited(i)
    \/ \E i \in 1..Len(reqs) : FindForDelete(i)
    \/ \E i \in 1..Len(reqs) : DeleteOne(i)
    \/ \E i \in 1..Len(reqs) : FindForReaction(i)
    \/ \E i \in 1..Len(reqs) : SaveReaction(i)
    \/ \E i \in 1..Len(reqs) : RefetchReaction(i)
    \/ \E i \in 1..Len(reqs) : CountPinned(i)
    \/ \E i \in 1..Len(reqs) : UpdatePinned(i)
    \/ \E i \in 1..Len(reqs) : ListPinned(i)

SpecMutate == InitMutate /\ [][NextMutate]_vars

---------------------------------------------------------------------------
(* Claims about mutations across rooms and schools.                        *)

MutationKinds == {"edit-message", "delete-message", "toggle-reaction",
                  "pin-message", "unpin-message"}

\* C34: the step in which a mutation of a stored message succeeds appends
\* its event to the inbox of exactly the sockets joined to the room the
\* message belongs to, whatever chatroomId the request names.
C34_EventToRoomOfMessage ==
    [][\A i \in 1..Len(reqs) :
          (/\ reqs[i].kind \in MutationKinds
           /\ reqs[i].pc # "done"
           /\ reqs'[i].pc = "done"
           /\ reqs'[i].ack = "ok"
           /\ reqs[i].mid \in DOMAIN store)
          => {k \in Sockets : inbox'[k] # inbox[k]}
                = InRoom(store[reqs[i].mid].chatroomId)
      ]_vars

\* C40: a mutation requested by an actor of another school than the
\* message's never changes or removes the message in any of its steps, and
\* is never acknowledged as a success.
C40_ForeignActorRefused ==
    [][\A i \in 1..Len(reqs) :
          (/\ reqs[i].kind \in MutationKinds
           /\ reqs[i].mid \in DOMAIN store
           /\ store[reqs[i].mid].schoolCode # schoolCode(SockUser(reqs[i].sock))
           /\ reqs'[i] # reqs[i])
          => /\ reqs[i].mid \in DOMAIN store'
             /\ store'[reqs[i].mid] = store[reqs[i].mid]
             /\ reqs'[i].ack # "ok"
      ]_vars

\* Of each kind of mutation, a request of u3 for message 1 has been refused
\* as not found while the message is stored.
C40_Witness ==
    /\ 1 \in DOMAIN store
    /\ \E i \in 1..Len(reqs), j \in 1..Len(reqs) :
          /\ reqs[i].sock = "k3" /\ reqs[j].sock = "k3"
          /\ reqs[i].kind = "toggle-reaction" /\ reqs[j].kind = "pin-message"
          /\ reqs[i].ack = "notFound" /\ reqs[j].ack = "notFound"

---------------------------------------------------------------------------
(* The specification of the floating room's unread count: u1, u2 and u4 of *)
(* school S1 and u3 of school S2 are connected; the collection holds a     *)
(* message of u1, a message of u2 and a message of u3.  No message is sent *)
(* or deleted.                                                             *)

FloatReadSockets == {"k1", "k2", "k3", "k4"}

InitFloatRead ==
    /\ store = [id \in {} |-> 0]
    /\ floating = [id \in {1, 2, 3} |->
                      IF id = 1 THEN NewFloatingMessage(1, "u1", <<"a">>, FALSE)
                      ELSE IF id = 2 THEN NewFloatingMessage(2, "u2", <<"a">>, FALSE)
                      ELSE NewFloatingMessage(3, "u3", <<"a">>, FALSE)]
    /\ nextId = 4
    /\ connected = FloatReadSockets
    /\ rooms = [k \in Sockets |->
                   IF k \in FloatReadSockets THEN {SchoolRoom(SockUser(k))} ELSE {}]
    /\ connectedClients = ClientsOf(FloatReadSockets)
    /\ onlineUsersBySchool = OnlineOf(FloatReadSockets)
    /\ now = 0
    /\ DbReady
    /\ rateLimiters = NoRequests
    /\ inbox = [k \in Sockets |-> <<>>]
    /\ reqs = <<>>

NextFloatRead ==
    \/ \E k \in FloatReadSockets :
          Len(reqs) < MaxFloatReadReqs /\ JoinRoom(k, FloatingRoom)
    \/ \E k \in FloatReadSockets :
          Len(reqs) < MaxFloatReadReqs /\ GetFloatingUnreadCount(k)
    \/ \E token \in TokensOf("k2"), throws \in BOOLEAN :
          Len(reqs) < MaxFloatReadReqs /\ PostFloatingMarkRead(token, throws)
    \/ \E i \in 1..Len(reqs), throws \in BOOLEAN : VerifyFloatingMarkRead(i, throws)
    \/ \E i \in 1..Len(reqs) : FloatingMarkReadStep(i)
    \/ \E i \in 1..Len(reqs) : FloatingMarkReadFails(i)
    \/ \E i \in 1..Len(reqs) : GetMessages(i)
    \/ \E i \in 1..Len(reqs) : MarkReadStep(i)
    \/ \E i \in 1..Len(reqs) : MarkReadFails(i)
    \/ \E i \in 1..Len(reqs) : CountFloatingUnread(i)
    \/ \E i \in 1..Len(reqs) : CountFails(i)

SpecFloatRead == InitFloatRead /\ [][NextFloatRead]_vars

\* User u has marked the floating message id read: a join-room of u for
\* floating-chat, or a mark-read request of u, has run its
\* markMessagesAsRead to the end, or has written the message so far.
HasMarkedFloating(u, id) ==
    \E j \in 1..Len(reqs) :
       /\ \/ /\ reqs[j].kind = "join-room"
             /\ reqs[j].room = FloatingRoom
             /\ SockUser(reqs[j].sock) = u
          \/ /\ reqs[j].kind = "post-floating-mark-read"
             /\ reqs[j].user = u
       /\ \/ reqs[j].pc = "done" /\ reqs[j].ack = "ok"
          \/ id \in reqs[j].modified

\* C35: the count a get-floating-unread-count returns to user u is the
\* number of floating messages of u's school that u did not send and has not
\* marked read, whatever the other users have marked.
C35_FloatingUnreadIsPerUser ==
    [][\A i \in 1..Len(reqs) :
          (Waiting(i, "get-floating-unread-count", "count") /\ reqs'[i].ack = "ok")
          => reqs'[i].count =
                LET u == SockUser(reqs[i].sock)
                IN  Cardinality({id \in DOMAIN floating :
                        /\ floating[id].schoolCode = schoolCode(u)
                        /\ floating[id].sender # u
                        /\ ~HasMarkedFloating(u, id)})
      ]_vars

---------------------------------------------------------------------------
(* The specification of the mark-read sweep among sends and counts: from   *)
(* the state of the read-state specification, u1 sends to R1 while u2      *)
(* marks R1 read and asks for its unread counts.                           *)

NextSweep ==
    \/ Len(reqs) < MaxSweepReqs /\ SendMessage("k1", "R1", <<"a">>, FALSE)
    \/ Len(reqs) < MaxSweepReqs /\ MarkMessagesRead("k2", "R1")
    \/ \E room \in {"R1", ""} :
          Len(reqs) < MaxSweepReqs /\ GetChatroomUnreadCount("k2", room)
    \/ Len(reqs) < MaxSweepReqs /\ GetUnreadCounts("k2")
    \/ \E i \in 1..Len(reqs) : SaveMessage(i)
    \/ \E i \in 1..Len(reqs) : MarkReadStep(i)
    \/ \E i \in 1..Len(reqs) : MarkReadFails(i)
    \/ \E i \in 1..Len(reqs) : CountUnread(i)
    \/ \E i \in 1..Len(reqs) : CountFails(i)

SpecSweep == InitRead /\ [][NextSweep]_vars

\* The messages of the room that a sweep for user u matches or has matched:
\* those of u's school that u did not send.
Sweepable(coll, room, u) ==
    {id \in DOMAIN coll :
        /\ coll[id].chatroomId = room
        /\ coll[id].schoolCode = schoolCode(u)
        /\ coll[id].sender # u}

ReadByUser(coll, id, u) == \E x \in 1..Len(coll[id].readBy) : coll[id].readBy[x] = u

\* A markMessagesAsRead of user u over room is in progress at request j.
SweepOf(j, room, u) ==
    /\ IsMark(j)
    /\ reqs[j].pc = "markRead"
    /\ reqs[j].room = room
    /\ SockUser(reqs[j].sock) = u

\* The store is entirely before or entirely after every sweep of (room, u)
\* in progress: the sweep has written no document, or every message that
\* was stored when it began, and that it is to mark, is read by u.
OutsideSweeps(room, u) ==
    \A j \in 1..Len(reqs) :
        SweepOf(j, room, u)
           => \/ reqs[j].modified = {}
              \/ \A id \in Sweepable(store, room, u) \cap reqs[j].present :
                    ReadByUser(store, id, u)

\* C33: in every step, (1) a count returned to u is the reference unread
\* count of the store of that step, and that store is entirely before or
\* entirely after every mark-read sweep of u over the room counted; (2) the
\* step in which a sweep for (r, u) completes leaves every message of r that
\* was stored when the sweep began, and not sent by u, read by u; and (3) a
\* message read by u stays read by u, so no message present at a sweep is
\* later counted as unread.
C33_SweepLinearizable ==
    [][/\ \A i \in 1..Len(reqs) :
            LET u == SockUser(reqs[i].sock)
            IN  /\ (reqs[i].pc = "count" /\ reqs'[i].ack = "ok"
                       /\ reqs[i].kind = "get-chatroom-unread-count")
                   => /\ reqs'[i].count = RefUnread(reqs[i].room, u)
                      /\ OutsideSweeps(reqs[i].room, u)
                /\ (reqs[i].pc = "count" /\ reqs'[i].ack = "ok"
                       /\ reqs[i].kind = "get-unread-counts")
                   => \A room \in ChatroomIds :
                         /\ IF RefUnread(room, u) = 0
                            THEN room \notin DOMAIN reqs'[i].counts
                            ELSE /\ room \in DOMAIN reqs'[i].counts
                                 /\ reqs'[i].counts[room] = RefUnread(room, u)
                         /\ OutsideSweeps(room, u)
                /\ (IsMark(i) /\ reqs[i].pc = "markRead" /\ reqs'[i].ack = "ok")
                   => \A id \in Sweepable(store', reqs[i].room, u) \cap reqs'[i].present :
                         ReadByUser(store', id, u)
       /\ \A id \in DOMAIN store, u \in Users :
             ReadByUser(store, id, u)
                => id \in DOMAIN store' /\ ReadByUser(store', id, u)
      ]_vars

---------------------------------------------------------------------------
(* The specification of paging: u1 sends messages to R1 while time passes, *)
(* and then, nothing being sent any more, pages through R1 from no cursor, *)
(* each load-more-messages carrying the nextCursor of the page before.     *)

InitPages ==
    /\ store = [id \in {} |-> 0]
    /\ floating = [id \in {} |-> 0]
    /\ nextId = 1
    /\ connected = {"k1"}
    /\ rooms = [k \in Sockets |-> IF k = "k1" THEN {"R1"} ELSE {}]
    /\ connectedClients = ClientsOf({"k1"})
    /\ onlineUsersBySchool = OnlineOf({"k1"})
    /\ now = 0
    /\ DbReady
    /\ rateLimiters = NoRequests
    /\ inbox = [k \in Sockets |-> <<>>]
    /\ reqs = <<>>

\* A millisecond passes.
PageTick ==
    /\ now < MaxPageTime
    /\ now' = now + 1
    /\ UNCHANGED <<chatVars, dbVars>>

AllDone == \A i \in 1..Len(reqs) : reqs[i].pc = "done"

NextPages ==
    \/ /\ Issued("load-more-messages") = 0
       /\ Issued("send-message") < MaxPageMsgs
       /\ SendMessage("k1", "R1", <<"a">>, FALSE)
    \/ \E i \in 1..Len(reqs) : SaveMessage(i)
    \/ Issued("load-more-messages") = 0 /\ PageTick
    \/ \E limit \in 1..MaxPageLimit, room \in {"R1", ""} :
          /\ AllDone
          /\ Issued("load-more-messages") = 0
          /\ LoadMoreMessages("k1", room, -1, limit)
    \/ /\ AllDone
       /\ reqs # <<>>
       /\ reqs[Len(reqs)].kind = "load-more-messages"
       /\ reqs[Len(reqs)].hasMore
       /\ LoadMoreMessages("k1", "R1", reqs[Len(reqs)].nextCursor,
                           reqs[Len(reqs)].limit)
    \/ \E i \in 1..Len(reqs) : FindMessages(i)
    \/ \E i \in 1..Len(reqs) : FindMessagesFails(i)

SpecPages == InitPages /\ [][NextPages]_vars

\* The pages returned so far, and whether the last one ended the paging.
Pages == {i \in 1..Len(reqs) :
             reqs[i].kind = "load-more-messages" /\ reqs[i].ack = "ok"}

PagingEnded == Pages # {} /\ \E i \in Pages : ~reqs[i].hasMore

\* C36: every page holds at most limit messages in chronological order,
\* with nextCursor the oldest timestamp returned when hasMore and null
\* otherwise; and once a page has hasMore false, every message of the room
\* is in exactly one place of exactly one page.
C36_PagingReturnsEachMessageOnce ==
    /\ \A i \in Pages :
          LET page == reqs[i].messages
          IN  /\ Len(page) <= reqs[i].limit
              /\ \A a, b \in 1..Len(page) :
                    a < b => store[page[a]].timestamp <= store[page[b]].timestamp
              /\ reqs[i].nextCursor =
                    IF reqs[i].hasMore THEN store[page[1]].timestamp ELSE -1
    /\ PagingEnded =>
          \A id \in DOMAIN store :
              Cardinality({ip \in Pages \X (1..MaxPageLimit + 1) :
                              /\ ip[2] <= Len(reqs[ip[1]].messages)
                              /\ reqs[ip[1]].messages[ip[2]] = id}) = 1

---------------------------------------------------------------------------
(* The specification of the chatroom list.  The chatrooms collection,      *)
(* which the server only reads, holds rooms of school S1 whose membership  *)
(* is given by teachers, by students, by class codes or by groups, each in *)
(* the three encodings, a room with empty lists, a room without            *)
(* recipients and a room of school S2.  A teacher, two students and the    *)
(* school's administrator ask for their chatrooms.                         *)

Encodings == {"strings", "objects", "string"}

\* The membership a room is meant to have, before it is encoded.
Membership(t, s, c, g) == [teachers |-> t, students |-> s, classCode |-> c, groups |-> g]

Memberships ==
    {Membership(<<"t1">>, <<>>, <<>>, <<>>),
     Membership(<<"t2", "tu1">>, <<>>, <<>>, <<>>),
     Membership(<<>>, <<"s9", "s1">>, <<>>, <<>>),
     Membership(<<>>, <<>>, <<"c1", "c2">>, <<>>),
     Membership(<<>>, <<>>, <<>>, <<"g2", "g1">>)}

Nobody == Membership(<<>>, <<>>, <<>>, <<>>)

RoomSpecs ==
    {[id |-> <<m, enc>>, schoolCode |-> "S1", hasRecipients |-> TRUE,
      members |-> m, enc |-> enc] : m \in Memberships, enc \in Encodings}
    \cup {[id |-> <<Nobody, "strings">>, schoolCode |-> "S1",
           hasRecipients |-> TRUE, members |-> Nobody, enc |-> "strings"],
          [id |-> <<Nobody, "none">>, schoolCode |-> "S1",
           hasRecipients |-> FALSE, members |-> Nobody, enc |-> "strings"],
          [id |-> <<Membership(<<"t1">>, <<"s1">>, <<>>, <<>>), "other">>,
           schoolCode |-> "S2", hasRecipients |-> TRUE,
           members |-> Membership(<<"t1">>, <<"s1">>, <<>>, <<>>),
           enc |-> "strings"]}

Encode(values, enc) ==
    IF values = <<>> THEN Absent
    ELSE IF enc = "string" THEN StringOf(values)
    ELSE ArrayOf(values, enc = "objects")

\* The document of the chatrooms collection for a room.
Document(room) ==
    [id |-> room.id, schoolCode |-> room.schoolCode,
     hasRecipients |-> room.hasRecipients,
     teachers |-> Encode(room.members.teachers, room.enc),
     students |-> Encode(room.members.students, room.enc),
     classCode |-> Encode(room.members.classCode, room.enc),
     groups |-> Encode(room.members.groups, room.enc)]

chatroomsCollection == {Document(room) : room \in RoomSpecs}

\* The users verifyToken returns.
Profile(who) ==
    CASE who = "teacher" ->
            [id |-> "t1", username |-> "tu1", userType |-> "teacher",
             role |-> "teacher", schoolCode |-> "S1", hasClassCode |-> FALSE,
             classCode |-> <<>>, hasGroups |-> TRUE, groups |-> <<"g1">>]
      [] who = "student" ->
            [id |-> "s1", username |-> "su1", userType |-> "student",
             role |-> "student", schoolCode |-> "S1", hasClassCode |-> TRUE,
             classCode |-> <<"c1">>, hasGroups |-> TRUE, groups |-> <<"g1">>]
      [] who = "newcomer" ->
            [id |-> "s2", username |-> "su2", userType |-> "student",
             role |-> "student", schoolCode |-> "S1", hasClassCode |-> FALSE,
             classCode |-> <<>>, hasGroups |-> FALSE, groups |-> <<>>]
      [] OTHER ->
            [id |-> "a1", username |-> "a1", userType |-> "school",
             role |-> "school", schoolCode |-> "S1", hasClassCode |-> FALSE,
             classCode |-> <<>>, hasGroups |-> FALSE, groups |-> <<>>]

ProfileNames == {"teacher", "student", "newcomer", "school"}

\* What verifyToken returns for the user: without the record of the lookup
\* (findOne rejected, or gave no document) classCode and groups are unset.
ProfileOf(who, found) ==
    IF found THEN Profile(who)
    ELSE [Profile(who) EXCEPT !.hasClassCode = FALSE, !.classCode = <<>>,
                              !.hasGroups = FALSE, !.groups = <<>>]

\* The Authorization headers of the requests: none, the login token of the
\* user, a token for the user signed with another key.
ChatroomTokens ==
    {NoToken} \cup {[userId |-> who, key |-> key] :
                       who \in ProfileNames, key \in {JWT_SECRET, "other"}}

\* GET /api/chatrooms up to its first await: verifyToken returns null for
\* a missing token and for one that jwt.verify rejects, and the answer is
\* 401 'Authentication required'; otherwise verifyToken is awaited.
GetChatrooms(token, throws) ==
    /\ LET req == [NewReq("get-chatrooms", NoSocket, "", "findUser")
                      EXCEPT !.token = token]
       IN  IF verifyToken(token) = NoUser THEN Refuse(req, "Authentication required")
           ELSE AwaitVerifyToken(req, throws)
    /\ UNCHANGED <<store, floating, nextId, rateLimiters, now>>

\* The awaited findOne of verifyToken in the route and what follows it:
\* the user is returned, with classCode and groups when the lookup found
\* them, and chatService.getChatrooms is called, which runs up to its
\* first await.
VerifyChatrooms(i, found, throws) ==
    /\ Waiting(i, "get-chatrooms", "findUser")
    /\ AfterVerify(reqs, calls, i, found, throws)
    /\ UNCHANGED <<store, floating, nextId, rateLimiters, now>>

\* The awaited find of getChatrooms, the filter and the response: the
\* list, or status 500 when the filter throws.
FindChatrooms(i) ==
    /\ Waiting(i, "get-chatrooms", "find")
    /\ LET user == ProfileOf(reqs[i].user, reqs[i].found)
           result == getChatrooms(chatroomsCollection, user.schoolCode, user)
       IN  reqs' = IF result.ok
                   THEN [Finish(i, "ok") EXCEPT ![i].chatrooms = result.chatrooms]
                   ELSE Finish(i, "error")
    /\ UNCHANGED <<store, floating, nextId, connected, rooms,
                   connectedClients, onlineUsersBySchool, rateLimiters, now, inbox, dbVars>>

\* The awaited find rejects: the catch of the route answers 500 'Failed to
\* fetch chatrooms'.
FindChatroomsFails(i) ==
    /\ Waiting(i, "get-chatrooms", "find")
    /\ reqs' = Finish(i, "error")
    /\ UNCHANGED <<store, floating, nextId, connected, rooms,
                   connectedClients, onlineUsersBySchool, rateLimiters, now, inbox, dbVars>>

NextChatrooms ==
    \/ \E token \in ChatroomTokens, throws \in Throws(MaxListThrows) :
          Len(reqs) < MaxListReqs /\ GetChatrooms(token, throws)
    \/ \E i \in 1..Len(reqs), found \in BOOLEAN, throws \in Throws(MaxListThrows) :
          VerifyChatrooms(i, found, throws)
    \/ \E i \in 1..Len(reqs) : FindChatrooms(i)
    \/ \E i \in 1..Len(reqs) : FindChatroomsFails(i)
    \/ \E c \in 1..Len(calls), throws \in Throws(MaxListThrows), again \in BOOLEAN :
          Retry(c, throws, again)
    \/ RetryTimer

SpecChatrooms == InitPresence /\ [][NextChatrooms]_vars

\* The requests whose user verifyToken has returned and whose service
\* method has its connection: getChatrooms is applied to them.
Verified ==
    {i \in 1..Len(reqs) :
        /\ reqs[i].kind = "get-chatrooms"
        /\ reqs[i].user # ""
        /\ reqs[i].pc = "find" \/ (reqs[i].pc = "done" /\ reqs[i].ack = "ok")}

\* The rooms the claim gives a user: all of the school for the school's
\* administrator; for a teacher those whose teachers hold the id or the
\* username; for a student those whose students hold the id or username,
\* whose class codes hold one of the student's, or whose groups hold one of
\* the student's.
Entitled(room, user) ==
    LET own == {user.id, user.username}
        m == room.members
    IN  /\ room.schoolCode = user.schoolCode
        /\ \/ user.role = "school"
           \/ user.role = "teacher" /\ Elems(m.teachers) \cap own # {}
           \/ /\ user.role = "student"
              /\ \/ Elems(m.students) \cap own # {}
                 \/ Elems(m.classCode) \cap Elems(user.classCode) # {}
                 \/ Elems(m.groups) \cap Elems(user.groups) # {}

\* C31: for every user verifyToken returns, getChatrooms over the rooms of
\* the collection gives a list, never an error, which holds exactly the
\* rooms the user is entitled to; and a list that is answered is that list.
C31_ListIsEntitledRooms ==
    \A i \in Verified :
        LET user == ProfileOf(reqs[i].user, reqs[i].found)
            result == getChatrooms(chatroomsCollection, user.schoolCode, user)
        IN  /\ result.ok
            /\ result.chatrooms =
                  {room.id : room \in {r \in RoomSpecs : Entitled(r, user)}}
            /\ reqs[i].ack = "ok" => reqs[i].chatrooms = result.chatrooms

\* C32: for every user verifyToken returns, getChatrooms does not fail, and
\* two rooms of a school with the same membership, encoded differently, are
\* both in its list or both left out.
C32_EncodingIndependent ==
    \A i \in Verified :
        LET user == ProfileOf(reqs[i].user, reqs[i].found)
            result == getChatrooms(chatroomsCollection, user.schoolCode, user)
        IN  /\ result.ok
            /\ \A r1, r2 \in RoomSpecs :
                  (/\ r1.members = r2.members
                   /\ r1.schoolCode = r2.schoolCode
                   /\ r1.hasRecipients /\ r2.hasRecipients)
                  => (r1.id \in result.chatrooms <=> r2.id \in result.chatrooms)

====
